---- MODULE Spec2Model ----
(***************************************************************************)
(* LIN master stack (mestrode/Lin-Interface-Library): frame transfer over  *)
(* a UART with loopback, the PDU codec and the diagnostic transport layer  *)
(* (writePDU / readPduResponse).                                           *)
(*                                                                         *)
(* Bytes are 0..255.  A frame on the wire is Break, Sync, ProtectedID,     *)
(* data bytes, checksum.  A PDU is the 8 data bytes of a diagnostic frame. *)
(***************************************************************************)
EXTENDS Integers, Sequences, FiniteSets, TLC

(***************************************************************************)
(* Bit arithmetic on unsigned integers                                     *)
(***************************************************************************)
Pow2(n) == 2^n

\* bitRead(value, bit)
bitRead(x, i) == (x \div Pow2(i)) % 2

\* a ^ b on single bits
BitXor(a, b) == (a + b) % 2

RECURSIVE BitwiseRec(_, _, _, _)
BitwiseRec(a, b, i, op) ==
    IF i = 8 THEN 0
    ELSE LET ba == bitRead(a, i)
             bb == bitRead(b, i)
             r  == CASE op = "or"  -> IF ba + bb > 0 THEN 1 ELSE 0
                    [] op = "and" -> ba * bb
                    [] op = "xor" -> (ba + bb) % 2
         IN  r * Pow2(i) + BitwiseRec(a, b, i + 1, op)

\* a | b, a & b, a ^ b on 8-bit values
Or8(a, b)  == BitwiseRec(a % 256, b % 256, 0, "or")
And8(a, b) == BitwiseRec(a % 256, b % 256, 0, "and")
Xor8(a, b) == BitwiseRec(a % 256, b % 256, 0, "xor")

Min(a, b) == IF a < b THEN a ELSE b

\* the element of a one-element set
The(S) == CHOOSE x \in S : TRUE

\* first n elements of s, and s without its first n elements
Take(s, n) == SubSeq(s, 1, Min(n, Len(s)))
Drop(s, n) == SubSeq(s, Min(n, Len(s)) + 1, Len(s))

(***************************************************************************)
(* LinFrameTransfer: constants, identifier codec, checksum                 *)
(***************************************************************************)
BREAK_FIELD == 0
SYNC_FIELD == 85
FRAME_ID_MASK == 63
MASTER_REQUEST == 60
SLAVE_REQUEST == 61
timeout_ReadFrame == 50

\* variant: parity bit 1 is not inverted
getProtectedID_plainP1(frameID) ==
    LET p0 == BitXor(BitXor(bitRead(frameID, 0), bitRead(frameID, 1)),
                     BitXor(bitRead(frameID, 2), bitRead(frameID, 4)))
        p1 == BitXor(BitXor(bitRead(frameID, 1), bitRead(frameID, 3)),
                     BitXor(bitRead(frameID, 4), bitRead(frameID, 5)))
    IN  (p1 * 128) + (p0 * 64) + (frameID % 64)

getProtectedID(frameID) ==
    LET p0 == BitXor(BitXor(bitRead(frameID, 0), bitRead(frameID, 1)),
                     BitXor(bitRead(frameID, 2), bitRead(frameID, 4)))
        \* uint8_t p1 = ~(...): 0xFF or 0xFE
        p1 == 255 - BitXor(BitXor(bitRead(frameID, 1), bitRead(frameID, 3)),
                           BitXor(bitRead(frameID, 4), bitRead(frameID, 5)))
    IN  \* the three operands of | have no bit in common below bit 8
        ((p1 * 128) % 256) + (p0 * 64) + (frameID % 64)

RECURSIVE SumBytes(_)
SumBytes(data) == IF data = <<>> THEN 0 ELSE Head(data) + SumBytes(Tail(data))

\* variant: the carry of the first fold is dropped
getChecksumEnhanced_singleFold(protectedID, data) ==
    LET sum0 == (protectedID + SumBytes(data)) % 65536
        sum1 == ((sum0 % 256) + (sum0 \div 256)) % 65536
    IN  255 - (sum1 % 256)

getChecksumEnhanced(protectedID, data) ==
    LET sum0 == (protectedID + SumBytes(data)) % 65536
        sum1 == ((sum0 % 256) + (sum0 \div 256)) % 65536
        sum2 == (sum1 + (sum1 \div 256)) % 65536
    IN  255 - (sum2 % 256)

\* variant: the protected ID is summed for every frame
getChecksumLin2x_alwaysEnhanced(protectedID, data) ==
    getChecksumEnhanced(protectedID, data)

getChecksumLin2x(protectedID, data) ==
    IF (protectedID % 64) >= MASTER_REQUEST
    THEN getChecksumEnhanced(0, data)
    ELSE getChecksumEnhanced(protectedID, data)

(***************************************************************************)
(* FrameReader: byte-wise decoder of Break / Sync / PID / data / checksum  *)
(***************************************************************************)
WaitForBreak == 0
WaitForSync == 1
WaitForPID == 2
WaitForData == 3
WaitForChkSum == 4
FrameComplete == 5

\* FrameReader(PID, expectedDataLength, ...): len is a uint8_t
FrameReader(PID, expectedDataLength) ==
    [state |-> WaitForBreak, protectedID |-> PID,
     len |-> expectedDataLength % 256, rxData |-> <<>>]

reset(r) == [r EXCEPT !.state = WaitForBreak, !.rxData = <<>>]

hasHead(r) == r.state >= WaitForData

\* variant: done before the checksum was compared
isFinish_beforeChecksum(r) == r.state >= WaitForChkSum

isFinish(r) == r.state = FrameComplete

processByte(r, newByte) ==
    CASE r.state = WaitForBreak ->
            IF newByte = BREAK_FIELD THEN [r EXCEPT !.state = WaitForSync] ELSE r
      [] r.state = WaitForSync ->
            IF newByte = SYNC_FIELD THEN [r EXCEPT !.state = WaitForPID] ELSE reset(r)
      [] r.state = WaitForPID ->
            IF newByte = r.protectedID THEN [r EXCEPT !.state = WaitForData] ELSE reset(r)
      [] r.state = WaitForData ->
            LET d == Append(r.rxData, newByte)
            IN  [r EXCEPT !.rxData = d,
                          !.state = IF Len(d) >= r.len THEN WaitForChkSum ELSE WaitForData]
      [] r.state = WaitForChkSum ->
            IF newByte = getChecksumLin2x(r.protectedID, r.rxData)
            THEN [r EXCEPT !.state = FrameComplete]
            ELSE reset(r)
      [] OTHER -> r

(***************************************************************************)
(* The UART (HardwareSerial with loopback): everything written is queued   *)
(* into the receive path ahead of the bytes the slaves send.               *)
(***************************************************************************)
baud == 19200

NewUart == [txBuffer |-> <<>>, loopbackBuffer |-> <<>>, rxBuffer |-> <<>>,
            mock_baud |-> baud, flush_done |-> TRUE,
            baudChangeUnflushed |-> FALSE, halfBaudBytes |-> <<>>,
            halfBaudAt |-> <<>>]

write(u, byte) ==
    [u EXCEPT !.txBuffer = Append(@, byte),
              !.loopbackBuffer = Append(@, byte),
              !.flush_done = FALSE,
              !.halfBaudBytes = IF u.mock_baud = baud THEN @ ELSE Append(@, byte),
              !.halfBaudAt = IF u.mock_baud = baud THEN @
                             ELSE Append(@, Len(u.txBuffer) + 1)]

flush(u) == [u EXCEPT !.flush_done = TRUE]

\* the driver expects a flush before the baud rate changes
updateBaudRate(u, value) ==
    [u EXCEPT !.mock_baud = value,
              !.baudChangeUnflushed = @ \/ ~u.flush_done]

available(u) == Len(u.loopbackBuffer) + Len(u.rxBuffer)

\* bytes in the order read() hands them out: loopback first
Pending(u) == u.loopbackBuffer \o u.rxBuffer

\* the uart after n calls of read()
readN(u, n) ==
    LET nl == Min(n, Len(u.loopbackBuffer))
    IN  [u EXCEPT !.loopbackBuffer = Drop(@, nl),
                  !.rxBuffer = Drop(@, n - nl)]

RECURSIVE writeAll(_, _)
writeAll(u, bytes) ==
    IF bytes = <<>> THEN u ELSE writeAll(write(u, Head(bytes)), Tail(bytes))

(***************************************************************************)
(* The bus as the environment: a bit error on the looped-back copy, and    *)
(* the bytes slaves put on the bus after a frame head.                     *)
(***************************************************************************)
\* noise = [pos |-> 0] (none) or [pos |-> k, mask |-> m]: the k-th byte
\* waiting in the loopback path arrives xor-ed with m
Distort(u, noise) ==
    IF noise.pos = 0 \/ noise.pos > Len(u.loopbackBuffer) THEN u
    ELSE [u EXCEPT !.loopbackBuffer[noise.pos] = Xor8(@, noise.mask)]

slaveSends(u, bytes) == [u EXCEPT !.rxBuffer = @ \o bytes]

(***************************************************************************)
(* LinFrameTransfer: writeFrame / readFrame                                *)
(***************************************************************************)
\* variant: the baud rate is restored without waiting for the break
writeBreak_restoreUnflushed(u) ==
    LET u1 == flush(u)
        u2 == updateBaudRate(u1, baud \div 2)
        u3 == write(u2, BREAK_FIELD)
    IN  updateBaudRate(u3, baud)

writeBreak(u) ==
    LET u1 == flush(u)
        u2 == updateBaudRate(u1, baud \div 2)
        u3 == write(u2, BREAK_FIELD)
        u4 == flush(u3)
    IN  updateBaudRate(u4, baud)

\* variant: the head without the break field
writeFrameHead_withoutBreak(u, protectedID) ==
    write(write(u, SYNC_FIELD), protectedID)

writeFrameHead(u, protectedID) ==
    write(write(writeBreak(u), SYNC_FIELD), protectedID)

\* feed bytes[n+1..] to the reader until it is done (headOnly: has the head;
\* otherwise: frame complete) or no byte is left
RECURSIVE RunReader(_, _, _, _)
RunReader(r, bytes, n, headOnly) ==
    IF (IF headOnly THEN hasHead(r) ELSE isFinish(r)) \/ n >= Len(bytes)
    THEN [reader |-> r, consumed |-> n]
    ELSE RunReader(processByte(r, bytes[n + 1]), bytes, n + 1, headOnly)

\* the loop ends when the frame is complete or, with no byte left to read,
\* when the window of timeout_ReadFrame has passed
receiveFrameExtractData(u, protectedID, expectedDataLength) ==
    The({ [uart |-> readN(u, run.consumed),
           ok   |-> isFinish(run.reader),
           data |-> IF isFinish(run.reader) THEN run.reader.rxData ELSE <<>>] :
          run \in {RunReader(FrameReader(protectedID, expectedDataLength),
                             Pending(u), 0, FALSE)} })

receiveFrameHead(u, protectedID) ==
    The({ [uart |-> readN(u, run.consumed), ok |-> hasHead(run.reader)] :
          run \in {RunReader(FrameReader(protectedID, 0), Pending(u), 0, TRUE)} })

\* variant: a checksum follows the head
writeEmptyFrame_withChecksum(u, frameID, noise) ==
    LET protectedID == getProtectedID(frameID)
        u1 == flush(write(writeFrameHead(u, protectedID),
                          getChecksumLin2x(protectedID, <<>>)))
    IN  The({ [uart |-> rb.uart, ok |-> rb.ok, timedOut |-> ~rb.ok] :
              rb \in {receiveFrameHead(Distort(u1, noise), protectedID)} })

\* timedOut: the readback ended with the window of timeout_ReadFrame
writeEmptyFrame(u, frameID, noise) ==
    LET protectedID == getProtectedID(frameID)
        u1 == flush(writeFrameHead(u, protectedID))
    IN  The({ [uart |-> rb.uart, ok |-> rb.ok, timedOut |-> ~rb.ok] :
              rb \in {receiveFrameHead(Distort(u1, noise), protectedID)} })

\* variant: the data read back are not compared
writeFrame_noCompare(u, frameID, data, noise) ==
    IF Len(data) = 0 THEN writeEmptyFrame(u, frameID, noise)
    ELSE
    LET protectedID == getProtectedID(frameID)
        u1 == writeAll(writeFrameHead(u, protectedID), data)
        u2 == flush(write(u1, getChecksumLin2x(protectedID, data)))
    IN  The({ [uart |-> rb.uart, ok |-> rb.ok, timedOut |-> ~rb.ok] :
              rb \in {receiveFrameExtractData(Distort(u2, noise), protectedID, Len(data))} })

writeFrame(u, frameID, data, noise) ==
    IF Len(data) = 0 THEN writeEmptyFrame(u, frameID, noise)
    ELSE
    LET protectedID == getProtectedID(frameID)
        u1 == writeAll(writeFrameHead(u, protectedID), data)
        u2 == flush(write(u1, getChecksumLin2x(protectedID, data)))
    IN  The({ [uart |-> rb.uart,
               ok |-> rb.ok /\ rb.data = data,
               timedOut |-> ~rb.ok] :
              rb \in {receiveFrameExtractData(Distort(u2, noise), protectedID, Len(data))} })

\* variant: the head is written twice
readFrame_headTwice(u, frameID, expectedDataLength, response) ==
    LET protectedID == getProtectedID(frameID)
        u1 == flush(writeFrameHead(writeFrameHead(u, protectedID), protectedID))
    IN  receiveFrameExtractData(slaveSends(u1, response), protectedID, expectedDataLength)

\* response: the bytes the slaves send once the head is on the bus
readFrame(u, frameID, expectedDataLength, response) ==
    LET protectedID == getProtectedID(frameID)
        u1 == flush(writeFrameHead(u, protectedID))
    IN  receiveFrameExtractData(slaveSends(u1, response), protectedID, expectedDataLength)

(***************************************************************************)
(* LinPDU: an 8-byte PDU is <<NAD, PCI, b3, .., b8>>                        *)
(***************************************************************************)
BROADCAST == 127
MASK_PCI_LEN == 15
MASK_PCI_SN == 15
PCI_SINGLE == 0
PCI_FIRST == 16
PCI_CONSECUTIVE == 32
dataLenSingle == 6
dataLenFirst == dataLenSingle - 1
dataLenConsecutive == dataLenSingle
fillByte == 255

\* n fill bytes
Fill(n) == [i \in 1..n |-> fillByte]

getNAD(frame) == frame[1]

\* common.PCI & MASK_PCI_TYPE: the high nibble
getType(frame) == (frame[2] \div 16) * 16

\* SingleFrame::setDataAndLen after setNAD
SingleFrame_setDataAndLen(NAD, payload) ==
    LET len == Min(dataLenSingle, Len(payload))
    IN  <<NAD, Or8(PCI_SINGLE, And8(len, MASK_PCI_LEN))>>
        \o Take(payload, len) \o Fill(dataLenSingle - len)

\* PCI_LEN & MASK_PCI_LEN: the low nibble
SingleFrame_getLen(frame) == frame[2] % (MASK_PCI_LEN + 1)

SingleFrame_getData(frame) == SubSeq(frame, 3, 2 + SingleFrame_getLen(frame))

\* FirstFrame::setLen and FirstFrame::setData after setNAD
FirstFrame_set(NAD, payload) ==
    LET len == Len(payload)
    IN  <<NAD, Or8(PCI_FIRST, (len \div 256) % 256), len % 256>>
        \o Take(payload, dataLenFirst)

\* (PCI_LEN_MSB & MASK_PCI_LEN) << 8 | LEN_LSB
FirstFrame_getLen(frame) == (frame[2] % (MASK_PCI_LEN + 1)) * 256 + frame[3]

FirstFrame_getData(frame) == SubSeq(frame, 4, 8)

\* ConsecutiveFrame::setSequenceNumber and ConsecutiveFrame::setData after setNAD
ConsecutiveFrame_set(NAD, sequenceNumber, payload, offset) ==
    LET len == Min(dataLenConsecutive, Len(payload) - offset)
    IN  <<NAD, Or8(PCI_CONSECUTIVE, And8(sequenceNumber, MASK_PCI_SN))>>
        \o SubSeq(payload, offset + 1, offset + len) \o Fill(dataLenConsecutive - len)

ConsecutiveFrame_getSequenceNumber(frame) == frame[2] % (MASK_PCI_SN + 1)

\* variant: every sequence number passes
ConsecutiveFrame_verifySequenceNumber_any(frame, expectedSequenceNumber) ==
    ConsecutiveFrame_getSequenceNumber(frame) \in 0..MASK_PCI_SN

ConsecutiveFrame_verifySequenceNumber(frame, expectedSequenceNumber) ==
    ConsecutiveFrame_getSequenceNumber(frame) = expectedSequenceNumber % (MASK_PCI_SN + 1)

ConsecutiveFrame_getData(frame, len) == SubSeq(frame, 3, 2 + Min(dataLenConsecutive, len))

(***************************************************************************)
(* LinTransportLayer: segmentation                                         *)
(***************************************************************************)
timeout_DtlSlaveResponse_per_frame == 50

\* sizeof(size_t) of the builds: 4 on the 32-bit target, 8 on a 64-bit host
SizeofSizeT == {4, 8}

ceilDiv(nominator, denominator) == (nominator + denominator - 1) \div denominator

fillSingleFrame(NAD, payload) == SingleFrame_setDataAndLen(NAD, payload)

fillFirstFrame(NAD, payload) == FirstFrame_set(NAD, payload)

\* variant: the sequence numbers start at 0
fillConsecutiveFrame_fromZero(NAD, sequenceNumber, payload, bytesWritten) ==
    ConsecutiveFrame_set(NAD, sequenceNumber + 255, payload, bytesWritten)

fillConsecutiveFrame(NAD, sequenceNumber, payload, bytesWritten) ==
    ConsecutiveFrame_set(NAD, sequenceNumber, payload, bytesWritten)

\* for (uint8_t i = 1; i <= CF_count; ++i): the frames i.. of the frameset
RECURSIVE fillConsecutiveFrames(_, _, _, _, _)
fillConsecutiveFrames(NAD, payload, i, CF_count, bytesWritten) ==
    IF i > CF_count THEN <<>>
    ELSE <<fillConsecutiveFrame(NAD, i, payload, bytesWritten)>>
         \o fillConsecutiveFrames(NAD, payload, (i + 1) % 256, CF_count,
               bytesWritten + Min(dataLenConsecutive, Len(payload) - bytesWritten))

\* sizeofLen: sizeof(PDU::dataLenSingle), the size of a size_t
framesetFromPayload(NAD, payload, sizeofLen) ==
    IF Len(payload) <= sizeofLen
    THEN <<fillSingleFrame(NAD, payload)>>
    ELSE LET data_in_CF == Len(payload) - dataLenFirst
             CF_count == ceilDiv(data_in_CF, dataLenConsecutive)
         IN  <<fillFirstFrame(NAD, payload)>>
             \o fillConsecutiveFrames(NAD, payload, 1, CF_count, dataLenFirst)

(***************************************************************************)
(* LinTransportLayer: reassembly (the locals of readPduResponse are the    *)
(* record s: acceptedNAD, frameCounter, announcedBytes, payload, timeout)  *)
(***************************************************************************)
\* variant: no check of the announced length
readSingleFrame_anyLength(frame) ==
    [ok |-> TRUE,
     payload |-> SubSeq(frame, 3, 2 + Min(dataLenSingle, SingleFrame_getLen(frame)))]

readSingleFrame(frame) ==
    IF SingleFrame_getLen(frame) > dataLenSingle
    THEN [ok |-> FALSE, payload |-> <<>>]
    ELSE [ok |-> TRUE, payload |-> SingleFrame_getData(frame)]

\* payload is empty and without capacity here: reserve() allocates exactly
\* announcedBytes, so the capacity test passes
readFirstFrame(frame, payload) ==
    LET announcedBytes == FirstFrame_getLen(frame)
    IN  IF announcedBytes <= dataLenSingle
        THEN [ok |-> FALSE, payload |-> payload, announcedBytes |-> announcedBytes]
        ELSE [ok |-> TRUE, payload |-> payload \o FirstFrame_getData(frame),
              announcedBytes |-> announcedBytes]

readConsecutiveFrame(frame, payload, announcedBytes, frameCounter) ==
    IF ~ConsecutiveFrame_verifySequenceNumber(frame, frameCounter)
    THEN [ok |-> FALSE, payload |-> payload]
    ELSE [ok |-> TRUE,
          payload |-> payload \o ConsecutiveFrame_getData(frame, announcedBytes - Len(payload))]

\* variant: the node address is replaced on the wildcard only
adoptNAD_wildcardOnly(acceptedNAD, frameNAD, nNAD) ==
    IF BROADCAST = acceptedNAD THEN frameNAD ELSE acceptedNAD

\* "NAD will be replaced...": on the wildcard, or when the frame carries newNAD
adoptNAD(acceptedNAD, frameNAD, nNAD) ==
    IF BROADCAST = acceptedNAD \/ frameNAD = nNAD THEN frameNAD ELSE acceptedNAD

\* variant: an ignored first frame leaves the adopted NAD in place
processPdu_noRevert(s, callerNAD, nNAD, frame, now_) ==
    IF Len(frame) # 8
    THEN [s |-> s, ctl |-> "continue", event |-> "sizeIgnored"]
    ELSE IF s.frameCounter = 0
    THEN LET acc == adoptNAD(s.acceptedNAD, getNAD(frame), nNAD)
         IN  IF acc # getNAD(frame)
             THEN [s |-> [s EXCEPT !.acceptedNAD = acc],
                   ctl |-> "continue", event |-> "nadIgnored"]
             ELSE IF getType(frame) = PCI_SINGLE
             THEN LET r == readSingleFrame(frame)
                  IN  IF ~r.ok
                      THEN [s |-> [s EXCEPT !.acceptedNAD = acc],
                            ctl |-> "continue", event |-> "sfIgnored"]
                      ELSE [s |-> [s EXCEPT !.acceptedNAD = acc, !.payload = r.payload],
                            ctl |-> "break", event |-> "sfAccepted"]
             ELSE IF getType(frame) = PCI_FIRST
             THEN LET r == readFirstFrame(frame, s.payload)
                  IN  IF ~r.ok
                      THEN [s |-> [s EXCEPT !.acceptedNAD = acc,
                                            !.announcedBytes = r.announcedBytes],
                            ctl |-> "continue", event |-> "ffIgnored"]
                      ELSE [s |-> [s EXCEPT !.acceptedNAD = acc,
                                            !.payload = r.payload,
                                            !.announcedBytes = r.announcedBytes,
                                            !.frameCounter = (@ + 1) % 256,
                                            !.timeout = now_ + timeout_DtlSlaveResponse_per_frame],
                            ctl |-> "continue", event |-> "ffAccepted"]
             ELSE [s |-> [s EXCEPT !.acceptedNAD = acc],
                   ctl |-> "continue", event |-> "typeIgnored"]
    ELSE IF s.acceptedNAD # getNAD(frame)
         THEN [s |-> s, ctl |-> "abort", event |-> "nadAbort"]
         ELSE IF getType(frame) # PCI_CONSECUTIVE
         THEN [s |-> s, ctl |-> "abort", event |-> "typeAbort"]
         ELSE LET r == readConsecutiveFrame(frame, s.payload, s.announcedBytes, s.frameCounter)
              IN  IF ~r.ok
                  THEN [s |-> s, ctl |-> "abort", event |-> "snAbort"]
                  ELSE [s |-> [s EXCEPT !.payload = r.payload,
                                        !.frameCounter = (@ + 1) % 256,
                                        !.timeout = @ + timeout_DtlSlaveResponse_per_frame],
                        ctl |-> IF s.announcedBytes = Len(r.payload) THEN "break" ELSE "continue",
                        event |-> "cfAccepted"]

\* one pass of the loop body of readPduResponse for a received frame; now_ is
\* millis() after readFrame returned.  ctl: "continue", "break" (success) or
\* "abort" (return {}); event names the branch taken
processPdu(s, callerNAD, nNAD, frame, now_) ==
    IF Len(frame) # 8
    THEN [s |-> s, ctl |-> "continue", event |-> "sizeIgnored"]
    ELSE IF s.frameCounter = 0
    THEN LET acc == adoptNAD(s.acceptedNAD, getNAD(frame), nNAD)
         IN  IF acc # getNAD(frame)
             THEN [s |-> [s EXCEPT !.acceptedNAD = acc],
                   ctl |-> "continue", event |-> "nadIgnored"]
             ELSE IF getType(frame) = PCI_SINGLE
             THEN LET r == readSingleFrame(frame)
                  IN  IF ~r.ok
                      THEN [s |-> [s EXCEPT !.acceptedNAD = callerNAD],
                            ctl |-> "continue", event |-> "sfIgnored"]
                      ELSE [s |-> [s EXCEPT !.acceptedNAD = acc, !.payload = r.payload],
                            ctl |-> "break", event |-> "sfAccepted"]
             ELSE IF getType(frame) = PCI_FIRST
             THEN LET r == readFirstFrame(frame, s.payload)
                  IN  IF ~r.ok
                      THEN [s |-> [s EXCEPT !.acceptedNAD = callerNAD,
                                            !.announcedBytes = r.announcedBytes],
                            ctl |-> "continue", event |-> "ffIgnored"]
                      ELSE [s |-> [s EXCEPT !.acceptedNAD = acc,
                                            !.payload = r.payload,
                                            !.announcedBytes = r.announcedBytes,
                                            !.frameCounter = (@ + 1) % 256,
                                            !.timeout = now_ + timeout_DtlSlaveResponse_per_frame],
                            ctl |-> "continue", event |-> "ffAccepted"]
             ELSE [s |-> [s EXCEPT !.acceptedNAD = callerNAD],
                   ctl |-> "continue", event |-> "typeIgnored"]
    ELSE IF s.acceptedNAD # getNAD(frame)
         THEN [s |-> s, ctl |-> "abort", event |-> "nadAbort"]
         ELSE IF getType(frame) # PCI_CONSECUTIVE
         THEN [s |-> s, ctl |-> "abort", event |-> "typeAbort"]
         ELSE LET r == readConsecutiveFrame(frame, s.payload, s.announcedBytes, s.frameCounter)
              IN  IF ~r.ok
                  THEN [s |-> s, ctl |-> "abort", event |-> "snAbort"]
                  ELSE [s |-> [s EXCEPT !.payload = r.payload,
                                        !.frameCounter = (@ + 1) % 256,
                                        !.timeout = @ + timeout_DtlSlaveResponse_per_frame],
                        ctl |-> IF s.announcedBytes = Len(r.payload) THEN "break" ELSE "continue",
                        event |-> "cfAccepted"]

\* a failed readFrame: "Failed to read initial PDU", continue
readFailed(s) == [s |-> s, ctl |-> "continue", event |-> "readFailed"]

\* variant: an empty payload is returned as a success
returnPayload_emptyIsSuccess(s, callerNAD, nNAD) ==
    [ok |-> TRUE, value |-> s.payload,
     NAD |-> IF callerNAD = BROADCAST \/ nNAD # 0 THEN s.acceptedNAD ELSE callerNAD]

\* variant: the caller's NAD is never written
returnPayload_keepsNAD(s, callerNAD, nNAD) ==
    IF s.payload = <<>>
    THEN [ok |-> FALSE, value |-> <<>>, NAD |-> callerNAD]
    ELSE [ok |-> TRUE, value |-> s.payload, NAD |-> callerNAD]

\* variant: the caller's NAD is written before the payload is tested
returnPayload_writesNADFirst(s, callerNAD, nNAD) ==
    [ok |-> s.payload # <<>>, value |-> s.payload,
     NAD |-> IF callerNAD = BROADCAST \/ nNAD # 0 THEN s.acceptedNAD ELSE callerNAD]

\* the code after the loop: what readPduResponse returns and the caller's NAD
returnPayload(s, callerNAD, nNAD) ==
    IF s.payload = <<>>
    THEN [ok |-> FALSE, value |-> <<>>, NAD |-> callerNAD]
    ELSE [ok |-> TRUE, value |-> s.payload,
          NAD |-> IF callerNAD = BROADCAST \/ nNAD # 0 THEN s.acceptedNAD ELSE callerNAD]

\* return {} inside the loop
returnAbort(callerNAD) == [ok |-> FALSE, value |-> <<>>, NAD |-> callerNAD]

(***************************************************************************)
(* Bounds and the inputs of the model                                      *)
(***************************************************************************)
\* longest request payload of an exchange
MaxRequestLen == 11
\* longest payload of the segmentation round trip
MaxShortLen == 14
MaxRoundTripLen == 110
\* longest data of a frame
MaxDataLen == 8
\* time a frame head takes on the wire: 0..MaxHeadTime ms
MaxHeadTime == 1
\* time from the call of readFrame / writeFrame to a frame read completely
FrameTime == 20

CallNADs == {26, BROADCAST}
NewNADs == {0, 27}
RespNADs == {0, 10, 26, 27, BROADCAST}

Pattern(base, len) == [i \in 1..len |-> (base + 16 * i) % 256]

Requests == {Pattern(len, len) : len \in {3, MaxRequestLen}}

\* second and third byte of the PDUs the slaves may send: Single Frames of
\* length 0, 6, 7, First Frames announcing 6, 7 and 14 bytes, Consecutive
\* Frames 1 and 2, and a frame of unknown type
RespHeads == {<<0, 161>>, <<6, 161>>, <<7, 161>>,
              <<16, 6>>, <<16, 7>>, <<16, 14>>,
              <<33, 161>>, <<34, 161>>, <<48, 161>>}

RespPdu(nad, head) == <<nad>> \o head \o Pattern(head[1], 5)

RespPdus == {RespPdu(nad, head) : nad \in RespNADs, head \in RespHeads}

\* a PDU as the response part of a slave-response frame: data and checksum
OnWire(frameID, data) == Append(data, getChecksumLin2x(getProtectedID(frameID), data))

\* data and checksum of a frame with the given protected ID
OnWireFrame(protectedID, data) == Append(data, getChecksumLin2x(protectedID, data))

BadChecksum(bytes) == [bytes EXCEPT ![Len(bytes)] = (@ + 1) % 256]

\* what may follow a slave-response head: nothing, a frame, a frame with a
\* wrong checksum, a frame cut short
Responses == {<<>>}
             \cup {OnWire(SLAVE_REQUEST, f) : f \in RespPdus}
             \cup {BadChecksum(OnWire(SLAVE_REQUEST, RespPdu(10, <<6, 161>>))),
                   RespPdu(10, <<6, 161>>)}

Noises == {[pos |-> 0, mask |-> 0], [pos |-> 5, mask |-> 1]}

\* time the frame head takes before the window of timeout_ReadFrame opens
HeadTimes == 0..MaxHeadTime

(***************************************************************************)
(* State                                                                   *)
(***************************************************************************)
VARIABLES
    pc,          \* "idle", "send", "response", "loop", "done"
    NAD,         \* the caller's NAD variable (passed by reference)
    newNAD,      \* argument newNAD
    request,     \* argument payload
    frameSet,    \* writePDU: frameSet
    segment,     \* writePDU: index of the next frame of frameSet to write
    rd,          \* readPduResponse: acceptedNAD, frameCounter, announcedBytes, payload, timeout
    now,         \* millis()
    uart,        \* the serial driver
    result,      \* what writePDU returned: ok, value
    callNAD,     \* history: NAD when writePDU was called
    writeOk,     \* history: what each writeFrame returned
    heads,       \* history: number of readFrame calls
    last,        \* history: the last pass of the loop: branch taken, frame read,
                 \*          frameCounter and acceptedNAD before the pass
    accepted,    \* history: the frames that were accepted
    tampered,    \* history: a slave has sent a wrong frame
    call,        \* history: the call of the frame layer or of a service
    trace        \* history: the calls that returned before this one

vars == <<pc, NAD, newNAD, request, frameSet, segment, rd, now, uart,
          result, callNAD, writeOk, heads, last, accepted, tampered, call, trace>>

NoRd == [acceptedNAD |-> 0, frameCounter |-> 0, announcedBytes |-> 0,
         payload |-> <<>>, timeout |-> 0]

NoResult == [ok |-> FALSE, value |-> <<>>]

NoCall == [op |-> "none"]

NoLast == [event |-> "none", frame |-> <<>>, fc |-> 0, acc |-> 0]

Init ==
    /\ pc = "idle"
    /\ NAD = 0 /\ newNAD = 0 /\ request = <<>>
    /\ frameSet = <<>> /\ segment = 0
    /\ rd = NoRd
    /\ now = 0
    /\ uart = NewUart
    /\ result = NoResult
    /\ callNAD = 0 /\ writeOk = <<>> /\ heads = 0 /\ last = NoLast /\ accepted = <<>>
    /\ tampered = FALSE
    /\ call = NoCall
    /\ trace = <<>>

(***************************************************************************)
(* writePDU                                                                *)
(***************************************************************************)
\* writePDU(NAD, payload, newNAD): prepare frameset
writePDU_call(nad, payload, nn, sizeofLen) ==
    /\ pc = "idle"
    /\ NAD' = nad /\ callNAD' = nad /\ newNAD' = nn /\ request' = payload
    /\ frameSet' = framesetFromPayload(nad, payload, sizeofLen)
    /\ segment' = 1
    /\ pc' = "send"
    /\ UNCHANGED <<rd, now, uart, result, writeOk, heads, last, accepted, tampered, call, trace>>

\* one pass of "for (const PDU& frame : frameSet) writeFrame(...)": the value
\* writeFrame returns is dropped
writePDU_writeFrame(noise) ==
    /\ pc = "send"
    /\ \E w \in {writeFrame(uart, MASTER_REQUEST, frameSet[segment], noise)} :
           /\ uart' = w.uart
           /\ writeOk' = Append(writeOk, w.ok)
           /\ now' = IF w.timedOut THEN now + timeout_ReadFrame ELSE now + FrameTime
    /\ segment' = segment + 1
    /\ pc' = IF segment = Len(frameSet) THEN "response" ELSE "send"
    /\ UNCHANGED <<NAD, newNAD, request, frameSet, rd, result,
                   callNAD, heads, last, accepted, tampered, call, trace>>

(***************************************************************************)
(* readPduResponse                                                         *)
(***************************************************************************)
readPduResponse_enter ==
    /\ pc = "response"
    /\ rd' = [acceptedNAD |-> NAD, frameCounter |-> 0, announcedBytes |-> 0,
              payload |-> <<>>,
              timeout |-> now + timeout_DtlSlaveResponse_per_frame]
    /\ pc' = "loop"
    /\ UNCHANGED <<NAD, newNAD, request, frameSet, segment, now, uart,
                   result, callNAD, writeOk, heads, last, accepted, tampered, call, trace>>

\* while (millis() < timeout) turns false: the code after the loop
readPduResponse_deadline ==
    /\ pc = "loop"
    /\ ~(now < rd.timeout)
    /\ LET ret == returnPayload(rd, NAD, newNAD)
       IN  /\ result' = [ok |-> ret.ok, value |-> ret.value]
           /\ NAD' = ret.NAD
    /\ pc' = "done"
    /\ UNCHANGED <<newNAD, request, frameSet, segment, rd, now, uart,
                   callNAD, writeOk, heads, last, accepted, tampered, call, trace>>

\* one pass of the loop: readFrame, then the frame is looked at
readPduResponse_readFrame(response, h) ==
    /\ pc = "loop"
    /\ now < rd.timeout
    /\ \E rx \in {readFrame(uart, SLAVE_REQUEST, 8, response)} :
       \E now_ \in {IF rx.ok THEN now + FrameTime ELSE now + h + timeout_ReadFrame} :
       \E step \in {IF rx.ok THEN processPdu(rd, NAD, newNAD, rx.data, now_)
                    ELSE readFailed(rd)} :
       \E ret \in {IF step.ctl = "abort" THEN returnAbort(NAD)
                   ELSE returnPayload(step.s, NAD, newNAD)} :
           /\ rx.ok => h = 0
           /\ uart' = rx.uart
           /\ now' = now_
           /\ rd' = step.s
           /\ heads' = heads + 1
           /\ last' = [event |-> step.event, frame |-> rx.data,
                       fc |-> rd.frameCounter, acc |-> rd.acceptedNAD]
           /\ accepted' = IF step.event \in {"sfAccepted", "ffAccepted", "cfAccepted"}
                          THEN Append(accepted, rx.data) ELSE accepted
           /\ IF step.ctl = "continue"
              THEN /\ pc' = "loop"
                   /\ UNCHANGED <<result, NAD, trace>>
              ELSE /\ pc' = "done"
                   /\ result' = [ok |-> ret.ok, value |-> ret.value]
                   /\ NAD' = ret.NAD
    /\ UNCHANGED <<newNAD, request, frameSet, segment, callNAD, writeOk, tampered, call, trace>>

Next ==
    \/ \E nad \in CallNADs, p \in Requests, nn \in NewNADs, sz \in SizeofSizeT :
          writePDU_call(nad, p, nn, sz)
    \/ \E noise \in Noises : writePDU_writeFrame(noise)
    \/ readPduResponse_enter
    \/ readPduResponse_deadline
    \/ \E r \in Responses, h \in HeadTimes : readPduResponse_readFrame(r, h)

Spec == Init /\ [][Next]_vars

(***************************************************************************)
(* Segmentation round trip: the frames of framesetFromPayload are queued   *)
(* as the slave's answer (mock_Input), then readPduResponse reads them.    *)
(***************************************************************************)
RoundTripLens == (0..MaxShortLen) \cup ((MaxRoundTripLen - 5)..MaxRoundTripLen)

RoundTripNADs == {10, BROADCAST}

RECURSIVE FramesOnWire(_, _)
FramesOnWire(frameID, frames) ==
    IF frames = <<>> THEN <<>>
    ELSE OnWire(frameID, Head(frames)) \o FramesOnWire(frameID, Tail(frames))

roundTrip_prepare(nad, payload, sizeofLen) ==
    /\ pc = "idle"
    /\ NAD' = nad /\ callNAD' = nad /\ newNAD' = 0 /\ request' = payload
    /\ \E fs \in {framesetFromPayload(nad, payload, sizeofLen)} :
          /\ frameSet' = fs
          /\ uart' = slaveSends(uart, FramesOnWire(SLAVE_REQUEST, fs))
    /\ segment' = 0
    /\ pc' = "response"
    /\ UNCHANGED <<rd, now, result, writeOk, heads, last, accepted, tampered, call, trace>>

\* the next PDU on the bus with another NAD, another type or another low
\* nibble of the PCI (sequence number or length)
WrongPdu(frame, kind) ==
    CASE kind = "nad"  -> [frame EXCEPT ![1] = (@ + 1) % 256]
      [] kind = "type" -> [frame EXCEPT ![2] = 48 + (@ % 16)]
      [] kind = "sn"   -> [frame EXCEPT ![2] = (@ \div 16) * 16 + ((@ + 1) % 16)]

slave_sendsWrongFrame(kind) ==
    /\ pc = "loop"
    /\ ~tampered
    /\ Len(uart.rxBuffer) >= 9
    /\ uart' = [uart EXCEPT !.rxBuffer =
                   OnWire(SLAVE_REQUEST, WrongPdu(Take(uart.rxBuffer, 8), kind))
                   \o Drop(uart.rxBuffer, 9)]
    /\ tampered' = TRUE
    /\ UNCHANGED <<pc, NAD, newNAD, request, frameSet, segment, rd, now, result,
                   callNAD, writeOk, heads, last, accepted, call, trace>>

NextRoundTrip ==
    \/ \E nad \in RoundTripNADs, len \in RoundTripLens, sz \in SizeofSizeT :
          roundTrip_prepare(nad, Pattern(len, len), sz)
    \/ \E kind \in {"nad", "type", "sn"} : slave_sendsWrongFrame(kind)
    \/ readPduResponse_enter
    \/ readPduResponse_deadline
    \/ readPduResponse_readFrame(<<>>, 0)

SpecRoundTrip == Init /\ [][NextRoundTrip]_vars

(***************************************************************************)
(* Properties of the transport layer                                       *)
(***************************************************************************)

\* C1: writePDU / readPduResponse returns a payload only when reception
\* completed: a Single Frame was accepted, or a First Frame and Consecutive
\* Frames delivering exactly the announced number of bytes; a partial
\* payload is never returned as a success.
C1_OkOnlyWhenComplete ==
    (pc = "done" /\ result.ok) =>
        /\ accepted # <<>>
        /\ \/ /\ Len(accepted) = 1
              /\ accepted[1][2] \div 16 = 0
           \/ /\ accepted[1][2] \div 16 = 1
              /\ Len(result.value) = (accepted[1][2] % 16) * 256 + accepted[1][3]

\* C2: when writeFrame fails for a segment of the master request, writePDU
\* aborts: no further segment is written, no slave-response head is sent and
\* the call returns no payload.
C2_AbortOnWriteFailure ==
    (\E i \in 1..Len(writeOk) : ~writeOk[i]) =>
        /\ ~writeOk[Len(writeOk)]
        /\ \A i \in 1..(Len(writeOk) - 1) : writeOk[i]
        /\ heads = 0
        /\ ~result.ok

\* C3: framesetFromPayload(nad, p) has exactly one frame iff Len(p) <= 6,
\* otherwise it has 1 + ceil((Len(p) - 5) / 6) frames.
C3_SegmentCount ==
    (pc # "idle") =>
        IF Len(request) <= 6
        THEN Len(frameSet) = 1
        ELSE Len(frameSet) = 1 + ((Len(request) - 5 + 5) \div 6)

\* C4: round trip: for a payload of at least one byte, reading the frames of
\* framesetFromPayload(nad, p) in order with the caller's NAD = nad returns
\* the payload p.
C4_RoundTrip ==
    (pc = "done" /\ ~tampered /\ Len(request) >= 1) =>
        (result.ok /\ result.value = request)

\* C5: the transmit stream is the master-request frames (PID 0x3C) in
\* segment order, followed only by slave-response heads (0x00, 0x55, 0x7D),
\* one per read attempt; no head is sent before the last segment.
C5_TxStream ==
    LET tx == uart.txBuffer
        n  == Len(writeOk)
    IN  /\ Len(tx) = 12 * n + 3 * heads
        /\ n <= Len(frameSet)
        /\ \A i \in 1..n :
              SubSeq(tx, 12 * (i - 1) + 1, 12 * (i - 1) + 11) = <<0, 85, 60>> \o frameSet[i]
        /\ \A j \in 1..heads :
              SubSeq(tx, 12 * n + 3 * (j - 1) + 1, 12 * n + 3 * j) = <<0, 85, 125>>
        /\ heads > 0 => n = Len(frameSet)

C5_Witness ==
    pc = "done" /\ Len(frameSet) >= 2 /\ Len(writeOk) = Len(frameSet) /\ heads >= 2

\* C6: with the wildcard 0x7F as the caller's NAD, the NAD of the first valid
\* Single or First Frame is adopted, and on success the caller's NAD is the
\* NAD of the accepted frames; with a specific NAD and newNAD = 0 a
\* successful exchange leaves the caller's NAD unchanged.
C6_WildcardResolution ==
    LET f == last.frame
        validSF == f[2] \div 16 = 0 /\ f[2] % 16 \in 1..6
        validFF == f[2] \div 16 = 1 /\ (f[2] % 16) * 256 + f[3] > 6
    IN  /\ (callNAD = 127 /\ f # <<>> /\ last.fc = 0 /\ (validSF \/ validFF)) =>
              /\ last.event \in {"sfAccepted", "ffAccepted"}
              /\ rd.acceptedNAD = f[1]
        /\ (callNAD = 127 /\ pc = "done" /\ result.ok) =>
              /\ accepted # <<>>
              /\ \A i \in 1..Len(accepted) : accepted[i][1] = NAD
        /\ (callNAD # 127 /\ newNAD = 0 /\ pc = "done" /\ result.ok) => NAD = callNAD

C6_Witness ==
    /\ pc = "done" /\ result.ok
    /\ callNAD = 127 /\ NAD = 10
    /\ Len(accepted) = 3

\* C7: with a specific caller NAD a and a non-zero newNAD n, a valid Single
\* Frame carrying n is accepted and the caller's NAD becomes n; one carrying
\* a is accepted and the NAD stays a; a frame with any other NAD is not
\* accepted.
C7_ConditionalChangeNAD ==
    LET f == last.frame
        validSF == f[2] \div 16 = 0 /\ f[2] % 16 \in 1..6
    IN  (callNAD # 127 /\ newNAD # 0 /\ f # <<>> /\ last.fc = 0) =>
           /\ (validSF /\ f[1] \in {callNAD, newNAD}) =>
                 /\ pc = "done" /\ result.ok
                 /\ result.value = SubSeq(f, 3, 2 + (f[2] % 16))
                 /\ NAD = f[1]
           /\ (f[1] \notin {callNAD, newNAD}) =>
                 /\ accepted = <<>>
                 /\ ~result.ok
                 /\ NAD = callNAD

C7_Witness ==
    /\ pc = "done" /\ result.ok
    /\ callNAD = 26 /\ newNAD = 27 /\ NAD = 27
    /\ last.event = "sfAccepted"

\* C8: once a First Frame has been accepted, a frame whose NAD differs from
\* the accepted NAD, whose type is not Consecutive Frame, or whose sequence
\* number differs from frameCounter & 0x0F ends the call at once without a
\* payload, and no further head is sent.
C8_AbortInSequence ==
    LET f == last.frame
    IN  (last.fc >= 1 /\ f # <<>>
         /\ (f[1] # last.acc \/ f[2] \div 16 # 2 \/ f[2] % 16 # last.fc % 16)) =>
           /\ pc = "done" /\ ~result.ok
           /\ last.event \in {"nadAbort", "typeAbort", "snAbort"}
           /\ Len(uart.txBuffer) = 12 * Len(writeOk) + 3 * heads
           /\ Len(accepted) = last.fc

C8_Witness ==
    /\ pc = "done" /\ ~result.ok
    /\ last.event = "snAbort"
    /\ last.fc >= 16

\* C9: once a First Frame has been accepted, a failed read of a
\* slave-response frame makes readPduResponse return without a payload at
\* once, without another head.
C9_AbortOnFailedRead ==
    (last.fc >= 1 /\ last.event = "readFailed") => (pc = "done" /\ ~result.ok)

\* C10: while frameCounter is 0, a failed read, a frame with a non-matching
\* NAD, a Single Frame announcing more than 6 bytes, a First Frame
\* announcing at most 6 bytes and a frame of unknown type do not end the
\* exchange; a valid matching Single Frame read before the deadline is
\* accepted and returned.
C10_FirstPhaseSwallows ==
    [][ (pc = "loop" /\ heads' = heads + 1 /\ rd.frameCounter = 0) =>
          LET f == last'.frame
              len == (f[2] % 16) * 256 + f[3]
              matching == NAD = 127 \/ f[1] = NAD \/ f[1] = newNAD
              swallowed ==
                  \/ f = <<>>
                  \/ NAD # 127 /\ f[1] # NAD /\ f[1] # newNAD
                  \/ f[2] \div 16 = 0 /\ f[2] % 16 > 6
                  \/ f[2] \div 16 = 1 /\ len <= 6
                  \/ f[2] \div 16 \notin {0, 1, 2}
          IN  /\ swallowed =>
                    /\ pc' = "loop"
                    /\ rd'.frameCounter = 0 /\ rd'.payload = <<>>
                    /\ UNCHANGED <<result, NAD, accepted, trace>>
              /\ (f # <<>> /\ matching /\ f[2] \div 16 = 0 /\ f[2] % 16 \in 1..6) =>
                    /\ pc' = "done" /\ result'.ok
                    /\ result'.value = SubSeq(f, 3, 2 + (f[2] % 16))
      ]_vars

C10_Witness ==
    /\ pc = "done" /\ result.ok
    /\ heads >= 2 /\ last.fc = 0 /\ last.event = "sfAccepted"
    /\ Len(accepted) = 1

(***************************************************************************)
(* The frame layer alone: one call of writeFrame or readFrame on a bus     *)
(* with nothing pending.                                                   *)
(***************************************************************************)
\* frame IDs: unconditional frames, the diagnostic frames, and 0x44, of
\* which only the low six bits count
FrameIDs == {0, 16, 59, MASTER_REQUEST, SLAVE_REQUEST, 68}

\* data of 0..MaxDataLen bytes and of 16 bytes, with the bytes 0x00 and 0xFF
FrameDataOf(len) == [i \in 1..len |-> IF i = 2 THEN 255 ELSE (17 * i + len) % 256]

FrameData == {FrameDataOf(len) : len \in (0..MaxDataLen) \cup {16}}

\* bit errors on the looped-back copy: none, one bit, a whole byte
FrameNoises(len) ==
    {[pos |-> 0, mask |-> 0]}
    \cup {[pos |-> p, mask |-> m] : p \in 1..(3 + len + 1), m \in {1, 255}}

\* what the slaves send after the head of readFrame(frameID, n): nothing, a
\* frame with n data bytes, with a wrong checksum, one data byte short, one
\* data byte long, and a frame with a wrong checksum followed by a whole
\* frame
FrameResponses(frameID, n) ==
    LET good == OnWire(frameID, FrameDataOf(n))
        long == OnWire(frameID, FrameDataOf(n + 1))
    IN  {<<>>, good, BadChecksum(good), Tail(good), long,
         BadChecksum(good) \o <<BREAK_FIELD, SYNC_FIELD, getProtectedID(frameID)>> \o good}

\* the bytes the reader took: what was pending, in the order of read(),
\* without what is still pending afterwards
Consumed(before, after) == Take(Pending(before), available(before) - available(after))

writeFrame_call(frameID, data, noise) ==
    /\ pc = "idle"
    /\ \E w \in {writeFrame(uart, frameID, data, noise)} :
       \E wire \in {Distort(writeAll(uart, Drop(w.uart.txBuffer, Len(uart.txBuffer))), noise)} :
          /\ uart' = w.uart
          /\ result' = [ok |-> w.ok, value |-> <<>>]
          /\ now' = IF w.timedOut THEN now + timeout_ReadFrame ELSE now + FrameTime
          /\ call' = [op |-> "writeFrame", frameID |-> frameID, data |-> data,
                      noise |-> noise, response |-> <<>>,
                      consumed |-> Consumed(wire, w.uart)]
    /\ pc' = "done"
    /\ UNCHANGED <<NAD, newNAD, request, frameSet, segment, rd,
                   callNAD, writeOk, heads, last, accepted, tampered, trace>>

readFrame_call(frameID, expectedDataLength, response) ==
    /\ pc = "idle"
    /\ \E rx \in {readFrame(uart, frameID, expectedDataLength, response)} :
       \E wire \in {slaveSends(writeAll(uart, Drop(rx.uart.txBuffer, Len(uart.txBuffer))),
                               response)} :
          /\ uart' = rx.uart
          /\ result' = [ok |-> rx.ok, value |-> rx.data]
          /\ now' = IF rx.ok THEN now + FrameTime ELSE now + timeout_ReadFrame
          /\ call' = [op |-> "readFrame", frameID |-> frameID,
                      data |-> [i \in 1..expectedDataLength |-> 0],
                      noise |-> [pos |-> 0, mask |-> 0], response |-> response,
                      consumed |-> Consumed(wire, rx.uart)]
    /\ pc' = "done"
    /\ UNCHANGED <<NAD, newNAD, request, frameSet, segment, rd,
                   callNAD, writeOk, heads, last, accepted, tampered, trace>>

NextFrame ==
    \/ \E frameID \in FrameIDs, data \in FrameData :
          \E noise \in FrameNoises(Len(data)) : writeFrame_call(frameID, data, noise)
    \/ \E frameID \in FrameIDs, n \in 0..MaxDataLen :
          \E response \in FrameResponses(frameID, n) : readFrame_call(frameID, n, response)

SpecFrame == Init /\ [][NextFrame]_vars

(***************************************************************************)
(* Properties of the frame layer                                           *)
(***************************************************************************)

\* C11: writeFrame of 1..8 (and 16) data bytes transmits exactly Break,
\* Sync, ProtectedID, the data bytes in order and the checksum; when the bus
\* loops this back unaltered it returns true after reading exactly
\* 3 + Len(data) + 1 bytes, and nothing is left to read.
C11_WriteFrameStream ==
    (call.op = "writeFrame" /\ Len(call.data) >= 1) =>
        LET pid == getProtectedID(call.frameID)
            \* the inverted sum with carry of the data, for the frame IDs
            \* below 0x3C of the protected ID and the data
            sum == SumBytes(call.data) + (IF call.frameID % 64 >= 60 THEN 0 ELSE pid)
            chk == 255 - (IF sum = 0 THEN 0 ELSE ((sum - 1) % 255) + 1)
            frame == <<0, 85, pid>> \o call.data \o <<chk>>
        IN  /\ uart.txBuffer = frame
            /\ call.noise.pos = 0 =>
                  /\ result.ok
                  /\ call.consumed = frame
                  /\ Len(call.consumed) = 3 + Len(call.data) + 1
                  /\ available(uart) = 0

C11_Witness ==
    call.op = "writeFrame" /\ Len(call.data) = 16 /\ call.noise.pos = 0 /\ result.ok

\* C12: writeFrame returns true only if a frame with the transmitted data
\* was read back; when the looped-back copy differs in a data byte,
\* writeFrame returns false, and the transmitted bytes are the whole frame.
C12_WriteFrameReadback ==
    (call.op = "writeFrame" /\ Len(call.data) >= 1) =>
        LET len == Len(call.data)
            pid == getProtectedID(call.frameID)
        IN  /\ result.ok =>
                  /\ Len(call.consumed) >= 3 + len + 1
                  /\ SubSeq(call.consumed, Len(call.consumed) - len,
                            Len(call.consumed) - 1) = call.data
            /\ (call.noise.pos \in 4..(3 + len) /\ call.noise.mask # 0) =>
                  /\ ~result.ok
                  /\ uart.txBuffer = <<0, 85, pid>> \o call.data
                                     \o <<getChecksumLin2x(pid, call.data)>>

\* a whole data byte 0xFF comes back as 0x00: the checksum still fits, the
\* frame is read within the window and the comparison of the data fails
C12_Witness ==
    /\ call.op = "writeFrame" /\ ~result.ok
    /\ call.noise.pos = 5 /\ call.noise.mask = 255
    /\ now < timeout_ReadFrame

\* C13: readFrame transmits exactly the three head bytes Break, Sync,
\* ProtectedID and nothing else, whatever the response.
C13_ReadFrameHeadOnly ==
    (call.op = "readFrame") =>
        /\ uart.txBuffer = <<0, 85, getProtectedID(call.frameID)>>
        /\ call.frameID = 68 => uart.txBuffer = <<0, 85, 196>>

C13_Witness ==
    /\ call.op = "readFrame" /\ ~result.ok
    /\ call.frameID = 68 /\ Len(call.response) = 9

\* C14: readFrame returns data only if the bytes it read end with Break,
\* Sync, the expected ProtectedID, the data and the checksum of the data; a
\* response with a wrong checksum or one data byte short gives no data.
C14_ReadFrameValid ==
    (call.op = "readFrame") =>
        LET pid  == getProtectedID(call.frameID)
            n    == Len(call.data)
            good == Append(FrameDataOf(n), getChecksumLin2x(pid, FrameDataOf(n)))
        IN  /\ result.ok =>
                  LET tail == <<0, 85, pid>> \o result.value
                              \o <<getChecksumLin2x(pid, result.value)>>
                  IN  /\ Len(call.consumed) >= Len(tail)
                      /\ Drop(call.consumed, Len(call.consumed) - Len(tail)) = tail
            /\ call.response \in {BadChecksum(good), Tail(good)} =>
                  /\ ~result.ok
                  /\ result.value = <<>>

C14_Witness ==
    /\ call.op = "readFrame" /\ result.ok
    /\ Len(result.value) = 8
    /\ Len(call.response) > 9

\* C15: for every expected length n in 0..8, data returned by
\* readFrame(frameID, n) have exactly n bytes.
C15_ExpectedLength ==
    (call.op = "readFrame" /\ result.ok) => Len(result.value) = Len(call.data)

\* C16: writeFrame with empty data transmits exactly the three head bytes,
\* reads back exactly 3 bytes and returns true once the head was seen.
C16_WriteEmptyFrame ==
    (call.op = "writeFrame" /\ call.data = <<>>) =>
        LET head == <<0, 85, getProtectedID(call.frameID)>>
        IN  /\ uart.txBuffer = head
            /\ call.noise.pos = 0 =>
                  /\ result.ok
                  /\ call.consumed = head
                  /\ available(uart) = 0

C16_Witness ==
    call.op = "writeFrame" /\ call.data = <<>> /\ call.noise.pos = 0 /\ result.ok

(***************************************************************************)
(* LinNodeConfig: the node-configuration services on top of writePDU       *)
(***************************************************************************)
ASSIGN_NAD == 176
READ_BY_ID == 178
CONDITIONAL_CHANGE == 179
SAVE_CONFIG == 182
ASSIGN_FRAME_IDENTIFIER_RANGE == 183

PRODUCT_ID == 0
SERIAL_NUMBER == 1

NEGATIVE_RESPONSE == 127

SID_TO_RSID_MASK == 64

lowByte(w) == w % 256
highByte(w) == (w \div 256) % 256

getRSID(SID) == (SID + SID_TO_RSID_MASK) % 256

\* sizeof(Error): magicnumber, SID, errorCode
SizeofError == 3

\* variant: every payload that is not empty is taken as valid
checkPayload_isValid_anyPayload(SID, payload) ==
    payload.ok /\ payload.value # <<>>

\* payload: what writePDU returned, [ok, value]
checkPayload_isValid(SID, payload) ==
    LET expectedRSID == getRSID(SID)
    IN  IF ~payload.ok THEN FALSE
        ELSE IF payload.value # <<>> /\ expectedRSID = payload.value[1] THEN TRUE
        ELSE IF Len(payload.value) < SizeofError THEN FALSE
        ELSE IF NEGATIVE_RESPONSE # payload.value[1] THEN FALSE
        ELSE FALSE

\* the request payloads
readById_payload(supplierId, functionId, id) ==
    <<READ_BY_ID, id, lowByte(supplierId), highByte(supplierId),
      lowByte(functionId), highByte(functionId)>>

readProductId_payload(supplierId, functionId) ==
    <<READ_BY_ID, PRODUCT_ID, lowByte(supplierId), highByte(supplierId),
      lowByte(functionId), highByte(functionId)>>

readSerialNumber_payload(supplierId, functionId) ==
    <<READ_BY_ID, PRODUCT_ID, lowByte(supplierId), highByte(supplierId),
      lowByte(functionId), highByte(functionId)>>

assignNAD_payload(supplierId, functionId, nn) ==
    <<ASSIGN_NAD, lowByte(supplierId), highByte(supplierId),
      lowByte(functionId), highByte(functionId), nn>>

conditionalChangeNAD_payload(id, byte, invert, mask, nn) ==
    <<CONDITIONAL_CHANGE, id, byte, mask, invert, nn>>

saveConfig_payload == <<SAVE_CONFIG>>

assignFrameIdRange_payload(startIndex, PID0, PID1, PID2, PID3) ==
    <<ASSIGN_FRAME_IDENTIFIER_RANGE, startIndex, PID0, PID1, PID2, PID3>>

Services == {"readById", "readProductId", "readSerialNumber", "assignNAD",
             "conditionalChangeNAD", "saveConfig", "assignFrameIdRange"}

payloadOf(service, a) ==
    CASE service = "readById"             -> readById_payload(a.supplierId, a.functionId, a.id)
      [] service = "readProductId"        -> readProductId_payload(a.supplierId, a.functionId)
      [] service = "readSerialNumber"     -> readSerialNumber_payload(a.supplierId, a.functionId)
      [] service = "assignNAD"            -> assignNAD_payload(a.supplierId, a.functionId, a.newNAD)
      [] service = "conditionalChangeNAD" ->
            conditionalChangeNAD_payload(a.id, a.byte, a.invert, a.mask, a.newNAD)
      [] service = "saveConfig"           -> saveConfig_payload
      [] service = "assignFrameIdRange"   ->
            assignFrameIdRange_payload(a.startIndex, a.PID[1], a.PID[2], a.PID[3], a.PID[4])

\* raw.value().data()[i]: a byte of the payload, or, past its end, whatever
\* byte g lies behind the vector
dataAt(value, i, g) == IF i + 1 <= Len(value) THEN value[i + 1] ELSE g

\* variant: the two bytes the other way round
word_swapped(LSB, MSB) == LSB * 256 + MSB

\* MSB << 8 | LSB
word(LSB, MSB) == MSB * 256 + LSB

readById_result(valid, value, g) ==
    IF ~valid THEN [ok |-> FALSE]
    ELSE [ok |-> TRUE, value |-> [i \in 1..5 |-> dataAt(value, i, g)]]

\* supplierId, functionId, variantId are written on success only
readProductId_result(valid, value, g, a) ==
    IF ~valid
    THEN [ok |-> FALSE, supplierId |-> a.supplierId, functionId |-> a.functionId,
          variantId |-> a.variantId]
    ELSE [ok |-> TRUE,
          supplierId |-> word(dataAt(value, 1, g), dataAt(value, 2, g)),
          functionId |-> word(dataAt(value, 3, g), dataAt(value, 4, g)),
          variantId  |-> dataAt(value, 5, g)]

\* MSB << 24 | LSB3 << 16 | LSB2 << 8 | LSB as uint32_t; the 32 bits are
\* kept as two halves of 16 bits, the number is hi * 65536 + lo
readSerialNumber_result(valid, value, g) ==
    IF ~valid THEN [ok |-> FALSE]
    ELSE [ok |-> TRUE,
          value |-> [hi |-> word(dataAt(value, 3, g), dataAt(value, 4, g)),
                     lo |-> word(dataAt(value, 1, g), dataAt(value, 2, g))]]

resultOf(service, SID, raw, g, a) ==
    LET valid == checkPayload_isValid(SID, raw)
    IN  CASE service = "readById"         -> readById_result(valid, raw.value, g)
          [] service = "readProductId"    -> readProductId_result(valid, raw.value, g, a)
          [] service = "readSerialNumber" -> readSerialNumber_result(valid, raw.value, g)
          [] OTHER                        -> [ok |-> valid]

\* the arguments of the services
ServiceArgs ==
    [supplierId |-> 11782, functionId |-> 4224, variantId |-> 0, id |-> 1,
     byte |-> 3, invert |-> 240, mask |-> 15, newNAD |-> 27, startIndex |-> 2,
     PID |-> <<128, 193, 66, 255>>]

\* bytes found behind a payload that is shorter than the response structure
GarbageBytes == {0, 165}

\* payloads of the slaves' answers to a request with SID: positive with 6
\* bytes, positive with 1 byte, negative, negative cut short, neither
ServicePayload(SID, kind) ==
    CASE kind = "positive"      -> <<getRSID(SID), 6, 46, 128, 16, 86>>
      [] kind = "positive2"     -> <<getRSID(SID), 1, 2, 3, 200, 5>>
      [] kind = "positiveShort" -> <<getRSID(SID)>>
      [] kind = "negative"      -> <<NEGATIVE_RESPONSE, SID, 18>>
      [] kind = "negativeShort" -> <<NEGATIVE_RESPONSE, SID>>
      [] kind = "other"         -> <<51, SID, 18>>

PayloadKinds == {"positive", "positive2", "positiveShort", "negative",
                 "negativeShort", "other"}

\* what the slaves send after a slave-response head: nothing, one of the
\* payloads in a Single Frame, or the First Frame of a positive response of
\* 14 bytes
ServiceResponse(SID, nad, kind) ==
    CASE kind = "none"  -> <<>>
      [] kind = "first" -> OnWire(SLAVE_REQUEST, <<nad, 16, 14, getRSID(SID), 1, 2, 3, 4>>)
      [] OTHER -> OnWire(SLAVE_REQUEST, SingleFrame_setDataAndLen(nad, ServicePayload(SID, kind)))

ResponseKinds == PayloadKinds \cup {"none", "first"}

\* the node that answers: node 0x0A, or the node addressed (0x1A, or newNAD
\* after a conditional change of the NAD)
Responders == {"other", "addressed"}

ResponderNAD(who) ==
    IF who = "other" THEN 10 ELSE IF newNAD # 0 THEN newNAD ELSE 26

\* the service builds its payload and calls writePDU
service_call(service, nad, sizeofLen) ==
    /\ pc = "idle"
    /\ \E payload \in {payloadOf(service, ServiceArgs)} :
          /\ request' = payload
          /\ frameSet' = framesetFromPayload(nad, payload, sizeofLen)
          /\ call' = [op |-> service, SID |-> payload[1], args |-> ServiceArgs,
                      ret |-> [ok |-> FALSE]]
    /\ NAD' = nad /\ callNAD' = nad
    /\ newNAD' = IF service = "conditionalChangeNAD" THEN ServiceArgs.newNAD ELSE 0
    /\ segment' = 1
    /\ pc' = "send"
    /\ UNCHANGED <<rd, now, uart, result, writeOk, heads, last, accepted, tampered, trace>>

\* writePDU has returned: check the payload, decode it, return
service_return(g) ==
    /\ pc = "done"
    /\ call.op \in Services
    /\ call' = [call EXCEPT !.ret = resultOf(call.op, call.SID, result, g, call.args)]
    /\ pc' = "returned"
    /\ UNCHANGED <<NAD, newNAD, request, frameSet, segment, rd, now, uart, result,
                   callNAD, writeOk, heads, last, accepted, tampered, trace>>

\* one pass of the loop of readPduResponse, with an answer to the request
\* of the running service
service_readFrame(who, kind) ==
    /\ call.op \in Services
    /\ readPduResponse_readFrame(ServiceResponse(call.SID, ResponderNAD(who), kind), 0)

NextNodeConfig ==
    \/ \E service \in Services, nad \in CallNADs, sz \in SizeofSizeT :
          service_call(service, nad, sz)
    \/ \E noise \in Noises : writePDU_writeFrame(noise)
    \/ readPduResponse_enter
    \/ readPduResponse_deadline
    \/ \E who \in Responders, kind \in ResponseKinds : service_readFrame(who, kind)
    \/ \E g \in GarbageBytes : service_return(g)

SpecNodeConfig == Init /\ [][NextNodeConfig]_vars

(***************************************************************************)
(* Properties of the node-configuration services                           *)
(***************************************************************************)

\* C17: readSerialNumber sends the payload 0xB2, 0x01, supplier low, supplier
\* high, function low, function high: the identifier after the SID is 0x01.
C17_SerialNumberRequest ==
    (call.op = "readSerialNumber") =>
        request = <<178, 1, call.args.supplierId % 256, call.args.supplierId \div 256,
                    call.args.functionId % 256, call.args.functionId \div 256>>

\* C18: each node-configuration service sends, as one Single Frame to the
\* caller's NAD, the payload of the service table.
C18_ServiceRequests ==
    (call.op \in {"readProductId", "assignNAD", "conditionalChangeNAD",
                  "saveConfig", "assignFrameIdRange"}) =>
        LET a == call.args
            sup == <<a.supplierId % 256, a.supplierId \div 256>>
            fn  == <<a.functionId % 256, a.functionId \div 256>>
            expected ==
                CASE call.op = "readProductId"        -> <<178, 0>> \o sup \o fn
                  [] call.op = "assignNAD"            -> <<176>> \o sup \o fn \o <<a.newNAD>>
                  [] call.op = "conditionalChangeNAD" ->
                        <<179, a.id, a.byte, a.mask, a.invert, a.newNAD>>
                  [] call.op = "saveConfig"           -> <<182>>
                  [] call.op = "assignFrameIdRange"   -> <<183, a.startIndex>> \o a.PID
        IN  /\ request = expected
            /\ frameSet = << <<callNAD, Len(expected)>> \o expected
                             \o [i \in 1..(6 - Len(expected)) |-> 255] >>

\* C19: a service reports success if and only if writePDU returned a
\* payload that is not empty and starts with the RSID (SID | 0x40) of the
\* request; a negative response, another first byte, a short payload and a
\* failed writePDU are reported as failure.
C19_ServiceSuccess ==
    (pc = "returned") =>
        (call.ret.ok <=> /\ result.ok
                         /\ result.value # <<>>
                         /\ result.value[1] = Or8(call.SID, 64))

C19_Witness ==
    /\ pc = "returned" /\ ~call.ret.ok
    /\ result.ok /\ result.value = <<127, call.SID, 18>>

\* C20: for a positive response r of 6 bytes, readProductId returns supplier
\* r[1] | r[2] << 8, function r[3] | r[4] << 8, variant r[5] and, for the
\* wildcard, the NAD of the node that answered; readSerialNumber returns
\* r[1] | r[2] << 8 | r[3] << 16 | r[4] << 24; readById returns r[1..5].
C20_ResponseDecoding ==
    (pc = "returned" /\ call.ret.ok /\ Len(result.value) = 6) =>
        LET r == [i \in 0..5 |-> result.value[i + 1]]
        IN  /\ call.op = "readProductId" =>
                  /\ call.ret.supplierId = r[1] + 256 * r[2]
                  /\ call.ret.functionId = r[3] + 256 * r[4]
                  /\ call.ret.variantId = r[5]
                  /\ callNAD = 127 => NAD = accepted[1][1]
            /\ call.op = "readSerialNumber" =>
                  /\ call.ret.value.lo = r[1] + 256 * r[2]
                  /\ call.ret.value.hi = r[3] + 256 * r[4]
            /\ call.op = "readById" =>
                  call.ret.value = <<r[1], r[2], r[3], r[4], r[5]>>

C20_Witness ==
    /\ pc = "returned" /\ call.ret.ok /\ call.op = "readProductId"
    /\ callNAD = 127 /\ NAD = 10
    /\ call.ret.supplierId = 11782 /\ call.ret.functionId = 4224
    /\ call.ret.variantId = 86

(***************************************************************************)
(* The identifier codec and the checksum as functions of their arguments   *)
(***************************************************************************)
\* data of len bytes: all 0xFF, all 0x00, mixed, and 0xFF.. with a last 0x01
\* (a sum whose fold carries a second time)
ChecksumDataOf(len, kind) ==
    CASE kind = "ff"    -> [i \in 1..len |-> 255]
      [] kind = "zero"  -> [i \in 1..len |-> 0]
      [] kind = "mixed" -> FrameDataOf(len)
      [] kind = "carry" -> [i \in 1..len |-> IF i = len THEN 1 ELSE 255]

ChecksumData ==
    {ChecksumDataOf(len, kind) : len \in 0..MaxDataLen,
                                 kind \in {"ff", "zero", "mixed", "carry"}}

Bytes == 0..255

getProtectedID_call(frameID) ==
    /\ pc = "idle"
    /\ call' = [op |-> "getProtectedID", frameID |-> frameID,
                ret |-> getProtectedID(frameID)]
    /\ pc' = "done"
    /\ UNCHANGED <<NAD, newNAD, request, frameSet, segment, rd, now, uart, result,
                   callNAD, writeOk, heads, last, accepted, tampered, trace>>

getChecksumLin2x_call(protectedID, data) ==
    /\ pc = "idle"
    /\ call' = [op |-> "getChecksumLin2x", protectedID |-> protectedID, data |-> data,
                ret |-> getChecksumLin2x(protectedID, data)]
    /\ pc' = "done"
    /\ UNCHANGED <<NAD, newNAD, request, frameSet, segment, rd, now, uart, result,
                   callNAD, writeOk, heads, last, accepted, tampered, trace>>

\* payload lengths: short ones, some with more than 16 Consecutive Frames,
\* and some that need the high nibble of the announced length
SegmentLens ==
    (0..MaxShortLen) \cup ((MaxRoundTripLen - 5)..MaxRoundTripLen) \cup {300}

\* lengths a First Frame can announce
FirstFrameLens == {7, 255, 256, 2748, 4095}

framesetFromPayload_call(nad, payload, sizeofLen) ==
    /\ pc = "idle"
    /\ request' = payload /\ callNAD' = nad
    /\ frameSet' = framesetFromPayload(nad, payload, sizeofLen)
    /\ call' = [op |-> "framesetFromPayload", sizeofLen |-> sizeofLen]
    /\ pc' = "done"
    /\ UNCHANGED <<NAD, newNAD, segment, rd, now, uart, result,
                   writeOk, heads, last, accepted, tampered, trace>>

fillFirstFrame_call(nad, payload) ==
    /\ pc = "idle"
    /\ request' = payload /\ callNAD' = nad
    /\ call' = [op |-> "fillFirstFrame", ret |-> fillFirstFrame(nad, payload)]
    /\ pc' = "done"
    /\ UNCHANGED <<NAD, newNAD, frameSet, segment, rd, now, uart, result,
                   writeOk, heads, last, accepted, tampered, trace>>

NextCodec ==
    \/ \E frameID \in Bytes : getProtectedID_call(frameID)
    \/ \E protectedID \in Bytes, data \in ChecksumData :
          getChecksumLin2x_call(protectedID, data)
    \/ \E nad \in RoundTripNADs, len \in SegmentLens, sz \in SizeofSizeT :
          framesetFromPayload_call(nad, FrameDataOf(len), sz)
    \/ \E nad \in RoundTripNADs, len \in FirstFrameLens :
          fillFirstFrame_call(nad, FrameDataOf(len))

SpecCodec == Init /\ [][NextCodec]_vars

\* C21: for every 8-bit f, getProtectedID(f) has the low six bits of f, bit 6
\* = ID0 xor ID1 xor ID2 xor ID4 and bit 7 = not (ID1 xor ID3 xor ID4 xor
\* ID5); the frame ID is recovered from it, the two upper bits of f have no
\* influence, and 0x3C gives 0x3C, 0x3D gives 0x7D.
C21_ProtectedID ==
    (call.op = "getProtectedID") =>
        LET f == call.frameID
            b(i) == (f \div (2^i)) % 2
            pid == call.ret
        IN  /\ pid \in 0..255
            /\ pid % 64 = f % 64
            /\ (pid \div 64) % 2 = (b(0) + b(1) + b(2) + b(4)) % 2
            /\ (pid \div 128) % 2 = 1 - ((b(1) + b(3) + b(4) + b(5)) % 2)
            /\ f < 64 => And8(pid, FRAME_ID_MASK) = f
            /\ \A up \in 0..3 : getProtectedID((f % 64) + 64 * up) = pid
            /\ f = 60 => pid = 60
            /\ f = 61 => pid = 125

C21_Witness ==
    call.op = "getProtectedID" /\ call.frameID = 61 /\ call.ret = 125

\* C22: the checksum c of getChecksumLin2x(pid, data) validates: the sum of
\* the data bytes, of the protected ID when the enhanced rule applies, and
\* of c, folded with end-around carry to 8 bits, is 0xFF.
C22_ChecksumValidates ==
    (call.op = "getChecksumLin2x") =>
        LET total == SumBytes(call.data)
                     + (IF call.protectedID % 64 < 60 THEN call.protectedID ELSE 0)
                     + call.ret
        IN  /\ call.ret \in 0..255
            /\ total > 0
            /\ ((total - 1) % 255) + 1 = 255

C22_Witness ==
    /\ call.op = "getChecksumLin2x"
    /\ call.protectedID = 0 /\ call.data = <<255, 255, 1>> /\ call.ret = 254

\* C23: getChecksumLin2x leaves the protected ID out of the sum exactly when
\* (id & 0x3F) >= 0x3C, the reserved IDs 0x3E and 0x3F included, and starts
\* the sum with the whole protected ID otherwise; the result is the inverted
\* 8-bit sum with end-around carry.
C23_ChecksumPolicy ==
    (call.op = "getChecksumLin2x") =>
        LET id == call.protectedID % 64
            start == IF id \in {60, 61, 62, 63} THEN 0 ELSE call.protectedID
            sum == start + SumBytes(call.data)
        IN  call.ret = 255 - (IF sum = 0 THEN 0 ELSE ((sum - 1) % 255) + 1)

C23_Witness ==
    /\ call.op = "getChecksumLin2x"
    /\ call.protectedID = 254 /\ call.data = <<255, 255, 1>> /\ call.ret = 254

(***************************************************************************)
(* The public operations one after the other on one driver.  Between two   *)
(* calls the transmit record is cleared (txBuffer.clear()); what is        *)
(* waiting in the receive path stays.                                      *)
(***************************************************************************)
\* number of calls in a row
MaxCalls == 3

delay_after_Wakeup == 100
SLEEP == 0

\* variant: the byte is written at the configured baud rate
requestWakeup_fullBaud(u) == flush(write(flush(u), BREAK_FIELD))

\* requestWakeup up to the delay
requestWakeup(u) ==
    LET u1 == flush(u)
        u2 == updateBaudRate(u1, baud \div 2)
        u3 == write(u2, BREAK_FIELD)
        u4 == flush(u3)
    IN  updateBaudRate(u4, baud)

\* PDU::getSleepCmd().asVector()
getSleepCmd == <<SLEEP, fillByte>> \o Fill(dataLenSingle)

\* variant: the command goes out as a slave-response frame
requestGoToSleep_asSlaveRequest(u, noise) == writeFrame(u, SLAVE_REQUEST, getSleepCmd, noise)

requestGoToSleep(u, noise) == writeFrame(u, MASTER_REQUEST, getSleepCmd, noise)

requestWakeup_call ==
    /\ pc = "idle"
    /\ uart' = requestWakeup(uart)
    /\ call' = [op |-> "requestWakeup", start |-> now,
                noise |-> [pos |-> 0, mask |-> 0]]
    /\ pc' = "wakeupDelay"
    /\ UNCHANGED <<NAD, newNAD, request, frameSet, segment, rd, now, result,
                   callNAD, writeOk, heads, last, accepted, tampered, trace>>

\* delay(delay_after_Wakeup), then the return
requestWakeup_delay ==
    /\ pc = "wakeupDelay"
    /\ now' = now + delay_after_Wakeup
    /\ pc' = "done"
    /\ UNCHANGED <<NAD, newNAD, request, frameSet, segment, rd, uart, result,
                   callNAD, writeOk, heads, last, accepted, tampered, call, trace>>

\* the value of writeFrame is dropped
requestGoToSleep_call(noise) ==
    /\ pc = "idle"
    /\ \E w \in {requestGoToSleep(uart, noise)} :
          /\ uart' = w.uart
          /\ now' = IF w.timedOut THEN now + timeout_ReadFrame ELSE now + FrameTime
          /\ call' = [op |-> "requestGoToSleep", noise |-> noise, readback |-> w.ok]
    /\ pc' = "done"
    /\ UNCHANGED <<NAD, newNAD, request, frameSet, segment, rd, result,
                   callNAD, writeOk, heads, last, accepted, tampered, trace>>

\* the operation that returned: writePDU leaves no record in call
OpName == IF call.op = "none" THEN "writePDU" ELSE call.op

\* the caller goes on to its next call; only differences of millis() count,
\* so the clock starts again
nextCall ==
    /\ pc = "done"
    /\ Len(trace) + 1 < MaxCalls
    /\ trace' = Append(trace,
          [op |-> OpName,
           clean |-> /\ OpName \in {"requestWakeup", "requestGoToSleep", "writeFrame"}
                     /\ call.noise.pos = 0])
    /\ uart' = [uart EXCEPT !.txBuffer = <<>>, !.halfBaudBytes = <<>>,
                            !.halfBaudAt = <<>>]
    /\ pc' = "idle"
    /\ NAD' = 0 /\ newNAD' = 0 /\ request' = <<>>
    /\ frameSet' = <<>> /\ segment' = 0
    /\ rd' = NoRd
    /\ now' = 0
    /\ result' = NoResult
    /\ callNAD' = 0 /\ writeOk' = <<>> /\ heads' = 0 /\ last' = NoLast /\ accepted' = <<>>
    /\ call' = NoCall
    /\ UNCHANGED tampered

BusFrameIDs == {16, MASTER_REQUEST}
BusData == {FrameDataOf(len) : len \in {0, 1, MaxDataLen}}
BusResponses(frameID, n) ==
    {<<>>, OnWire(frameID, FrameDataOf(n)), OnWire(frameID, FrameDataOf(n)) \o <<0>>}
BusPduResponses == {<<>>, OnWire(SLAVE_REQUEST, RespPdu(26, <<6, 161>>))}

NextBus ==
    \/ requestWakeup_call
    \/ requestWakeup_delay
    \/ \E noise \in Noises : requestGoToSleep_call(noise)
    \/ \E frameID \in BusFrameIDs, data \in BusData, noise \in Noises :
          writeFrame_call(frameID, data, noise)
    \/ \E response \in BusResponses(SLAVE_REQUEST, 2) :
          readFrame_call(SLAVE_REQUEST, 2, response)
    \/ writePDU_call(26, Pattern(3, 3), 0, 8)
    \/ writePDU_writeFrame([pos |-> 0, mask |-> 0])
    \/ readPduResponse_enter
    \/ readPduResponse_deadline
    \/ \E response \in BusPduResponses : readPduResponse_readFrame(response, 0)
    \/ nextCall

SpecBus == Init /\ [][NextBus]_vars

(***************************************************************************)
(* Properties of the operations in a row                                   *)
(***************************************************************************)

\* C24: requestWakeup transmits exactly one byte, 0x00, written at half the
\* configured baud rate, no Sync and no protected ID; it restores the
\* configured baud rate and then waits 100 ms before it returns.
C24_Wakeup ==
    (call.op = "requestWakeup") =>
        /\ uart.txBuffer = <<0>>
        /\ uart.halfBaudAt = <<1>>
        /\ uart.mock_baud = 19200
        /\ pc \in {"wakeupDelay", "done"}
        /\ pc = "wakeupDelay" => now = call.start
        /\ pc = "done" => now = call.start + 100

C24_Witness ==
    /\ call.op = "requestWakeup" /\ pc = "done"
    /\ uart.txBuffer = <<0>> /\ now = 100

\* C25: requestGoToSleep transmits exactly one master-request frame, the 12
\* bytes 0x00, 0x55, 0x3C, 0x00, seven 0xFF, 0x00, and no slave-response
\* head after it.
C25_Sleep ==
    (call.op = "requestGoToSleep") =>
        uart.txBuffer = <<0, 85, 60, 0, 255, 255, 255, 255, 255, 255, 255, 0>>

C25_Witness ==
    /\ call.op = "requestGoToSleep" /\ pc = "done" /\ call.readback
    /\ Len(uart.txBuffer) = 12 /\ uart.txBuffer[3] = 60

\* C26: over any sequence of public operations, the baud rate is changed
\* only when no written byte is unflushed; the only byte written at half
\* baud is the break byte 0x00 of a frame head or of a wakeup, every other
\* byte is written at the configured baud; and the UART is at the
\* configured baud when an operation returns.
C26_BaudDiscipline ==
    LET tx == uart.txBuffer
        \* breaks of this call so far: one per frame written or requested
        breaks == IF call.op = "none"
                  THEN (IF segment = 0 THEN 0 ELSE segment - 1) + heads
                  ELSE 1
    IN  /\ ~uart.baudChangeUnflushed
        /\ uart.mock_baud = 19200
        /\ Len(uart.halfBaudAt) = breaks
        /\ \A i \in DOMAIN uart.halfBaudAt :
              LET p == uart.halfBaudAt[i]
              IN  /\ tx[p] = 0
                  /\ IF call.op = "requestWakeup" THEN p = 1 /\ Len(tx) = 1
                     ELSE p < Len(tx) /\ tx[p + 1] = 85

C26_Witness ==
    /\ Len(trace) = 2 /\ trace[1].op = "requestWakeup" /\ trace[2].op = "writePDU"
    /\ pc = "done" /\ call.op = "readFrame"
    /\ Len(uart.halfBaudAt) = 1 /\ Len(uart.txBuffer) = 3

\* C30: on a bus that loops back every byte and carries no slave traffic, in
\* any sequence of requestWakeup, requestGoToSleep, writeEmptyFrame and
\* writeFrame calls every writeFrame returns true: what an earlier call left
\* in the receive queue never makes a later call fail.
C30_NoCarryOver ==
    (/\ pc = "done" /\ call.op = "writeFrame" /\ call.noise.pos = 0
     /\ \A i \in DOMAIN trace : trace[i].clean) =>
        result.ok

\* C29: when reception completes with an empty payload (an accepted Single
\* Frame announcing length 0), readPduResponse returns nothing and the
\* caller's NAD variable is not updated, even for the wildcard.
C29_EmptyPayload ==
    (/\ pc = "done" /\ last.event = "sfAccepted"
     /\ SingleFrame_getLen(last.frame) = 0) =>
        /\ ~result.ok
        /\ result.value = <<>>
        /\ NAD = callNAD

C29_Witness ==
    /\ pc = "done" /\ last.event = "sfAccepted" /\ last.frame[2] = 0
    /\ callNAD = 127 /\ last.frame[1] = 10 /\ NAD = 127 /\ ~result.ok

(***************************************************************************)
(* Properties of the segmentation                                          *)
(***************************************************************************)

\* C27: in every frameset of more than one frame the k-th Consecutive Frame
\* carries PCI 0x20 | (k mod 16): the sequence numbers start at 1, go up by
\* one and wrap from 15 to 0; the First Frame carries PCI 0x10 | (len >> 8)
\* and then len & 0xFF, so that the announced length decodes back to len.
C27_SequenceNumbers ==
    /\ (call.op = "framesetFromPayload" /\ Len(frameSet) > 1) =>
          LET len == Len(request)
          IN  /\ frameSet[1][2] = 16 + (len \div 256)
              /\ frameSet[1][3] = len % 256
              /\ (frameSet[1][2] % 16) * 256 + frameSet[1][3] = len
              /\ \A k \in 1..(Len(frameSet) - 1) : frameSet[k + 1][2] = 32 + (k % 16)
    /\ (call.op = "fillFirstFrame") =>
          LET len == Len(request)
          IN  /\ call.ret[2] = 16 + (len \div 256)
              /\ call.ret[3] = len % 256
              /\ (call.ret[2] % 16) * 256 + call.ret[3] = len

C27_Witness ==
    /\ call.op = "framesetFromPayload" /\ Len(request) = 300
    /\ frameSet[1][2] = 17 /\ frameSet[1][3] = 44
    /\ frameSet[16][2] = 47 /\ frameSet[17][2] = 32 /\ frameSet[18][2] = 33

\* C28: every frame of framesetFromPayload has 8 bytes; a First Frame holds
\* the payload bytes 0..4 and no fill byte; every Consecutive Frame but the
\* last holds 6 payload bytes; in a Single Frame and in the last Consecutive
\* Frame the positions behind the payload are 0xFF; no payload byte is
\* dropped or duplicated.
C28_FrameLayout ==
    (call.op = "framesetFromPayload") =>
        LET p == request
            n == Len(frameSet)
        IN  /\ \A i \in 1..n : Len(frameSet[i]) = 8
            /\ IF frameSet[1][2] \div 16 = 0
               THEN /\ n = 1
                    /\ Len(p) <= 6
                    /\ \A j \in 1..6 :
                          frameSet[1][2 + j] = IF j <= Len(p) THEN p[j] ELSE 255
               ELSE /\ Len(p) > 5 * (IF n = 1 THEN 0 ELSE 1) + 6 * (n - 2)
                    /\ Len(p) <= 5 + 6 * (n - 1)
                    /\ \A j \in 1..5 : frameSet[1][3 + j] = p[j]
                    /\ \A k \in 1..(n - 1) : \A j \in 1..6 :
                          frameSet[k + 1][2 + j] =
                              IF 5 + 6 * (k - 1) + j <= Len(p)
                              THEN p[5 + 6 * (k - 1) + j] ELSE 255

(***************************************************************************)
(* Further properties of the reassembly                                    *)
(***************************************************************************)

\* C31: with a caller NAD that is not the wildcard and newNAD left at 0, a
\* Single or First Frame whose NAD differs from the caller's is never
\* accepted, whatever NAD it carries: it adds nothing to the payload.
C31_ForeignNADIgnored ==
    (/\ callNAD # 127 /\ newNAD = 0 /\ pc \in {"loop", "done"}
     /\ last.event \in {"sfAccepted", "ffAccepted"}) =>
        last.frame[1] = callNAD

\* C32: with the wildcard as caller NAD, after a frame from NAD A was
\* ignored as a First Frame announcing 6 bytes or fewer, a Single Frame
\* announcing more than 6 bytes or a frame of unknown type, the accepted NAD
\* is the wildcard again: a valid Single Frame from another NAD B that
\* follows is accepted and the caller's NAD variable becomes B.
C32_WildcardReverted ==
    [][ (/\ callNAD = 127 /\ pc = "loop" /\ last.fc = 0
         /\ last.event \in {"sfIgnored", "ffIgnored", "typeIgnored"}) =>
            /\ rd.acceptedNAD = 127
            /\ (/\ heads' = heads + 1
                /\ Len(last'.frame) = 8
                /\ last'.frame[1] # last.frame[1]
                /\ last'.frame[2] \in 1..6) =>
                   /\ last'.event = "sfAccepted"
                   /\ pc' = "done"
                   /\ result'.ok
                   /\ result'.value = SubSeq(last'.frame, 3, 2 + last'.frame[2])
                   /\ NAD' = last'.frame[1] ]_vars

C32_Witness ==
    /\ callNAD = 127 /\ pc = "loop" /\ now < rd.timeout
    /\ last.event = "ffIgnored" /\ last.frame[1] = 26 /\ last.frame[3] = 6
    /\ rd.acceptedNAD = 127

(***************************************************************************)
(* The FrameReader fed byte by byte: some bytes that do not make a head,   *)
(* then a whole frame.                                                     *)
(***************************************************************************)
\* longest run of bytes in front of the frame
MaxPrefixLen == 3

ReaderPIDs == {getProtectedID(16), getProtectedID(SLAVE_REQUEST)}
ReaderLens == {1, 2, MaxDataLen}

\* bytes in front of the frame: break, sync, a protected ID, another byte
PrefixBytes == {BREAK_FIELD, SYNC_FIELD, 165} \cup ReaderPIDs

\* FrameReader frameReader(protectedID, expectedDataLength, ...)
FrameReader_new(PID, expectedDataLength) ==
    /\ pc = "idle"
    /\ call' = [op |-> "FrameReader", reader |-> FrameReader(PID, expectedDataLength),
                prefix |-> <<>>, frame |-> <<>>, rest |-> <<>>, data |-> <<>>]
    /\ pc' = "prefix"
    /\ UNCHANGED <<NAD, newNAD, request, frameSet, segment, rd, now, uart, result,
                   callNAD, writeOk, heads, last, accepted, tampered, trace>>

\* frameReader.processByte(newByte) for a byte in front of the frame
processByte_prefix(newByte) ==
    /\ pc = "prefix"
    /\ Len(call.prefix) < MaxPrefixLen
    /\ ~hasHead(processByte(call.reader, newByte))
    /\ call' = [call EXCEPT !.reader = processByte(@, newByte),
                            !.prefix = Append(@, newByte)]
    /\ UNCHANGED <<pc, NAD, newNAD, request, frameSet, segment, rd, now, uart, result,
                   callNAD, writeOk, heads, last, accepted, tampered, trace>>

\* a whole valid frame arrives: break, sync, PID, data, checksum
frame_arrives(data) ==
    /\ pc = "prefix"
    /\ Len(data) = call.reader.len
    /\ \E f \in {<<BREAK_FIELD, SYNC_FIELD, call.reader.protectedID>>
                 \o OnWireFrame(call.reader.protectedID, data)} :
          call' = [call EXCEPT !.frame = f, !.rest = f, !.data = data]
    /\ pc' = "frame"
    /\ UNCHANGED <<NAD, newNAD, request, frameSet, segment, rd, now, uart, result,
                   callNAD, writeOk, heads, last, accepted, tampered, trace>>

\* frameReader.processByte(newByte) for the next byte of the frame
processByte_frame ==
    /\ pc = "frame"
    /\ call.rest # <<>>
    /\ ~isFinish(call.reader)
    /\ call' = [call EXCEPT !.reader = processByte(@, Head(call.rest)),
                            !.rest = Tail(@)]
    /\ UNCHANGED <<pc, NAD, newNAD, request, frameSet, segment, rd, now, uart, result,
                   callNAD, writeOk, heads, last, accepted, tampered, trace>>

NextReader ==
    \/ \E PID \in ReaderPIDs, len \in ReaderLens : FrameReader_new(PID, len)
    \/ \E newByte \in PrefixBytes : processByte_prefix(newByte)
    \/ \E len \in ReaderLens : frame_arrives(FrameDataOf(len))
    \/ processByte_frame

SpecReader == Init /\ [][NextReader]_vars

\* C33: a reader that has not matched a head yet (WaitForBreak, WaitForSync
\* or WaitForPID, after any bytes) and is fed a whole valid frame - break,
\* sync, the expected protected ID, the expected number of data bytes and
\* their checksum - ends in FrameComplete with those data bytes.
C33_Resynchronisation ==
    (call.op = "FrameReader" /\ pc = "frame" /\ call.rest = <<>>) =>
        /\ call.reader.state = FrameComplete
        /\ call.reader.rxData = call.data

\* C34: when one bit of one looped-back data byte of writeFrame is wrong and
\* every other byte, the checksum included, is read back as written, the
\* call fails through the comparison of the readback data with the data
\* written: it returns before the time for reading a frame has run out.
C34_ReadbackMismatch ==
    (/\ pc = "done" /\ call.op = "writeFrame"
     /\ call.noise.mask = 1
     /\ call.noise.pos \in 4..(3 + Len(call.data))) =>
        /\ ~result.ok
        /\ now < timeout_ReadFrame

(***************************************************************************)
(* The classification of a response, for every service identifier          *)
(***************************************************************************)
\* what writePDU may have returned for the service: nothing, an empty
\* payload, a negative response, and payloads that begin with the SID with
\* 0x40 added and with the SID with bit 6 set
CheckedPayloads(SID) ==
    {[ok |-> FALSE, value |-> <<>>], [ok |-> TRUE, value |-> <<>>],
     [ok |-> TRUE, value |-> <<NEGATIVE_RESPONSE, SID, 18>>],
     [ok |-> TRUE, value |-> <<(SID + SID_TO_RSID_MASK) % 256, 1>>],
     [ok |-> TRUE, value |-> <<Or8(SID, SID_TO_RSID_MASK), 1>>]}

checkPayload_isValid_call(SID, payload) ==
    /\ pc = "idle"
    /\ call' = [op |-> "checkPayload_isValid", SID |-> SID, payload |-> payload,
                expectedRSID |-> getRSID(SID)]
    /\ result' = [ok |-> checkPayload_isValid(SID, payload), value |-> payload.value]
    /\ pc' = "done"
    /\ UNCHANGED <<NAD, newNAD, request, frameSet, segment, rd, now, uart,
                   callNAD, writeOk, heads, last, accepted, tampered, trace>>

NextCheck ==
    \E SID \in Bytes : \E payload \in CheckedPayloads(SID) :
        checkPayload_isValid_call(SID, payload)

SpecCheck == Init /\ [][NextCheck]_vars

C36_NoReadBeyondPayload ==
    (/\ pc = "returned" /\ call.ret.ok
     /\ call.op \in {"readById", "readProductId", "readSerialNumber"}) =>
        Len(result.value) >= (IF call.op = "readSerialNumber" THEN 5 ELSE 6)

\* C37: whenever writePDU returns without a payload - a frame of the
\* request could not be written, the deadline passed, a frame was refused
\* during reassembly, or the payload is empty - the caller's NAD variable
\* holds the value it had before the call, for callers with the wildcard
\* and for callers that passed a new NAD alike.
C37_NADKeptOnFailure ==
    (pc = "done" /\ ~result.ok) => NAD = callNAD

\* the wildcard caller had adopted a NAD, then a frame was refused
C37_Witness ==
    /\ pc = "done" /\ ~result.ok
    /\ callNAD = BROADCAST /\ NAD = BROADCAST
    /\ last.event \in {"nadAbort", "typeAbort", "snAbort"}
    /\ rd.acceptedNAD # BROADCAST

(***************************************************************************)
(* The loop of framesetFromPayload, pass by pass: only the counters and    *)
(* the index written are kept, not the frames.                             *)
(***************************************************************************)
\* longest payload of the lengths around 255 Consecutive Frames
MaxLoopLen == 1535
\* longest payload a First Frame can announce (12 bits)
MaxPayloadLen == 4095

LoopLens == (0..MaxShortLen) \cup ((MaxLoopLen - 6)..MaxLoopLen) \cup {MaxPayloadLen}

\* up to the first test of the loop: the Single Frame, or the First Frame
\* and  uint8_t i = 1
framesetFromPayload_begin(len, sizeofLen) ==
    /\ pc = "idle"
    /\ IF len <= sizeofLen
       THEN /\ call' = [op |-> "framesetFromPayload_loop", len |-> len, CF_count |-> 0,
                        i |-> 0, passes |-> 0, index |-> 0, bytesWritten |-> Min(len, dataLenSingle)]
            /\ pc' = "done"
       ELSE /\ call' = [op |-> "framesetFromPayload_loop", len |-> len,
                        CF_count |-> ceilDiv(len - dataLenFirst, dataLenConsecutive),
                        i |-> 1, passes |-> 0, index |-> 0, bytesWritten |-> dataLenFirst]
            /\ pc' = "fill"
    /\ UNCHANGED <<NAD, newNAD, request, frameSet, segment, rd, now, uart, result,
                   callNAD, writeOk, heads, last, accepted, tampered, trace>>

\* i <= CF_count holds: fillConsecutiveFrame(frameset[i], ...), ++i as uint8_t;
\* the passes are counted up to one more than CF_count
framesetFromPayload_pass ==
    /\ pc = "fill"
    /\ call.i <= call.CF_count
    /\ call' = [call EXCEPT !.index = call.i,
                            !.i = (@ + 1) % 256,
                            !.passes = Min(@ + 1, call.CF_count + 1),
                            !.bytesWritten = @ + Min(dataLenConsecutive, call.len - @)]
    /\ UNCHANGED <<pc, NAD, newNAD, request, frameSet, segment, rd, now, uart, result,
                   callNAD, writeOk, heads, last, accepted, tampered, trace>>

\* i <= CF_count fails: return std::move(frameset)
framesetFromPayload_return ==
    /\ pc = "fill"
    /\ ~(call.i <= call.CF_count)
    /\ pc' = "done"
    /\ UNCHANGED <<call, NAD, newNAD, request, frameSet, segment, rd, now, uart, result,
                   callNAD, writeOk, heads, last, accepted, tampered, trace>>

NextLoop ==
    \/ \E len \in LoopLens, sz \in SizeofSizeT : framesetFromPayload_begin(len, sz)
    \/ framesetFromPayload_pass
    \/ framesetFromPayload_return

SpecLoop == Init /\ [][NextLoop]_vars

\* C38: for every payload length 0..4095 the loop of framesetFromPayload
\* that fills the Consecutive Frames ends after exactly CF_count passes and
\* never writes a frame index outside 1..CF_count.
C38_LoopEnds ==
    (call.op = "framesetFromPayload_loop") =>
        /\ call.passes <= call.CF_count
        /\ call.passes > 0 => call.index \in 1..call.CF_count
        /\ pc = "done" => call.passes = call.CF_count

(***************************************************************************)
(* readPduResponse with long responses: the payload is kept as its length  *)
(* and its capacity, the frames as their type and length or sequence       *)
(* number; every frame has the accepted NAD.                               *)
(***************************************************************************)
\* frames the slave may send that are ignored, per call
MaxIgnored == 2
\* a response one byte longer than a First Frame and 255 Consecutive Frames
LongResponseLen == 1536

\* capacity of a vector that has grown by itself: at least its size
Grown == 0 - 1

\* the frames read: none (readFrame failed or not 8 bytes), Single Frames,
\* First Frames, Consecutive Frames, a frame of another type; exact: a
\* vector that has grown has the capacity asked for after reserve()
ReassemblyFrames ==
    {[type |-> "none", len |-> 0, sn |-> 0, exact |-> TRUE],
     [type |-> "other", len |-> 0, sn |-> 0, exact |-> TRUE]}
    \cup {[type |-> "SF", len |-> l, sn |-> 0, exact |-> TRUE] : l \in {0, 6, 7}}
    \cup {[type |-> "FF", len |-> l, sn |-> 0, exact |-> e] :
             l \in {6, 7, LongResponseLen}, e \in BOOLEAN}
    \cup {[type |-> "CF", len |-> 0, sn |-> n, exact |-> TRUE] : n \in 0..15}

\* one pass of the loop of readPduResponse on the locals c, with the frame
\* read and t = millis() after readFrame
readPduResponse_pass(c, frame, t) ==
    IF frame.type = "none" THEN [c |-> c, ctl |-> "continue", event |-> "readFailed"]
    ELSE IF c.frameCounter = 0 THEN
        IF frame.type = "SF" THEN
            IF frame.len > dataLenSingle
            THEN [c |-> c, ctl |-> "continue", event |-> "sfIgnored"]
            ELSE [c |-> [c EXCEPT !.size = frame.len], ctl |-> "break",
                  event |-> "sfAccepted"]
        ELSE IF frame.type = "FF" THEN
            LET c1 == [c EXCEPT !.announcedBytes = frame.len]
                \* payload.reserve(announcedBytes)
                cap == IF c.capacity = Grown
                       THEN (IF frame.len >= c.size /\ frame.exact THEN frame.len ELSE Grown)
                       ELSE (IF frame.len > c.capacity THEN frame.len ELSE c.capacity)
            IN  IF frame.len <= dataLenSingle
                THEN [c |-> c1, ctl |-> "continue", event |-> "ffIgnored"]
                ELSE IF cap # frame.len
                THEN [c |-> [c1 EXCEPT !.capacity = cap], ctl |-> "continue",
                      event |-> "ffIgnored"]
                ELSE [c |-> [c1 EXCEPT !.size = @ + dataLenFirst,
                                       !.capacity = IF c.size + dataLenFirst > cap
                                                    THEN Grown ELSE cap,
                                       !.frameCounter = 1,
                                       !.timeout = t + timeout_DtlSlaveResponse_per_frame,
                                       !.acceptedFF = @ + 1],
                      ctl |-> "continue", event |-> "ffAccepted"]
        ELSE [c |-> c, ctl |-> "continue", event |-> "typeIgnored"]
    ELSE
        IF frame.type # "CF" THEN [c |-> c, ctl |-> "abort", event |-> "typeAbort"]
        ELSE IF frame.sn # c.frameCounter % 16
        THEN [c |-> c, ctl |-> "abort", event |-> "snAbort"]
        ELSE
            \* bytesToReceive = announcedBytes - payload.size() as size_t
            LET n == IF c.announcedBytes >= c.size
                     THEN Min(dataLenConsecutive, c.announcedBytes - c.size)
                     ELSE dataLenConsecutive
                c1 == [c EXCEPT !.size = @ + n,
                                !.capacity = IF @ = Grown \/ c.size + n > @
                                             THEN Grown ELSE @,
                                !.frameCounter = (@ + 1) % 256,
                                !.timeout = @ + timeout_DtlSlaveResponse_per_frame,
                                !.acceptedCF = @ + 1,
                                !.appended = n]
            IN  [c |-> c1,
                 ctl |-> IF c1.announcedBytes = c1.size THEN "break" ELSE "continue",
                 event |-> "cfAccepted"]

\* the locals of readPduResponse before the loop
readPduResponse_begin ==
    /\ pc = "idle"
    /\ call' = [op |-> "readPduResponse", size |-> 0, capacity |-> 0,
                announcedBytes |-> 0, frameCounter |-> 0,
                timeout |-> now + timeout_DtlSlaveResponse_per_frame,
                acceptedFF |-> 0, acceptedCF |-> 0, appended |-> 0,
                ignored |-> 0, before |-> 0, event |-> "none"]
    /\ pc' = "loop"
    /\ UNCHANGED <<NAD, newNAD, request, frameSet, segment, rd, now, uart, result,
                   callNAD, writeOk, heads, last, accepted, tampered, trace>>

\* one pass of the loop with a frame of the slave; at most MaxIgnored of
\* the passes accept nothing
readPduResponse_frame(frame) ==
    /\ pc = "loop" /\ call.op = "readPduResponse"
    /\ now < call.timeout
    /\ \E t \in {IF frame.type = "none" THEN now + timeout_ReadFrame ELSE now + FrameTime} :
       \E step \in {readPduResponse_pass(call, frame, t)} :
          /\ step.event \in {"sfAccepted", "ffAccepted", "cfAccepted"}
                \/ step.ctl = "abort" \/ call.ignored < MaxIgnored
          /\ now' = t
          /\ call' = [step.c EXCEPT !.event = step.event,
                                    !.before = call.size,
                                    !.ignored = IF step.ctl = "continue"
                                                   /\ step.event \notin {"ffAccepted", "cfAccepted"}
                                                THEN @ + 1 ELSE @]
          /\ pc' = IF step.ctl = "continue" THEN "loop" ELSE "done"
          /\ result' = [ok |-> step.ctl = "break" /\ step.c.size > 0, value |-> <<>>]
    /\ UNCHANGED <<NAD, newNAD, request, frameSet, segment, rd, uart,
                   callNAD, writeOk, heads, last, accepted, tampered, trace>>

\* the slave stays silent: every readFrame fails after timeout_ReadFrame
\* until millis() < timeout is false
readPduResponse_silence ==
    /\ pc = "loop" /\ call.op = "readPduResponse"
    /\ now < call.timeout
    /\ now' = now + timeout_ReadFrame * ceilDiv(call.timeout - now, timeout_ReadFrame)
    /\ call' = [call EXCEPT !.event = "readFailed", !.before = call.size]
    /\ UNCHANGED <<pc, NAD, newNAD, request, frameSet, segment, rd, uart, result,
                   callNAD, writeOk, heads, last, accepted, tampered, trace>>

\* millis() < timeout is false: the code after the loop
readPduResponse_return ==
    /\ pc = "loop" /\ call.op = "readPduResponse"
    /\ ~(now < call.timeout)
    /\ result' = [ok |-> call.size > 0, value |-> <<>>]
    /\ pc' = "done"
    /\ UNCHANGED <<call, NAD, newNAD, request, frameSet, segment, rd, now, uart,
                   callNAD, writeOk, heads, last, accepted, tampered, trace>>

NextReassembly ==
    \/ readPduResponse_begin
    \/ \E frame \in ReassemblyFrames : readPduResponse_frame(frame)
    \/ readPduResponse_silence
    \/ readPduResponse_return

SpecReassembly == Init /\ [][NextReassembly]_vars

\* C39: in readPduResponse the number of Consecutive Frames accepted - the
\* frames that move the deadline by 50 ms each - is bounded by the length
\* the First Frame announced, so the call returns whatever the slave sends.
C39_AcceptedFramesBounded ==
    (/\ call.op = "readPduResponse" /\ call.acceptedFF > 0
     /\ call.announcedBytes > dataLenSingle) =>
        call.acceptedCF <= ceilDiv(call.announcedBytes - dataLenFirst, dataLenConsecutive)

\* C40: at every point of readPduResponse after a First Frame was accepted
\* announcedBytes > 6 and 5 <= payload.size() <= announcedBytes, with
\* payload.size() = min(announcedBytes, 5 + 6 * (frameCounter - 1)); each
\* accepted Consecutive Frame appends min(6, announcedBytes - payload.size())
\* bytes.
C40_ReassemblyInvariant ==
    (/\ call.op = "readPduResponse" /\ pc = "loop" /\ call.acceptedFF > 0) =>
        /\ call.announcedBytes > dataLenSingle
        /\ dataLenFirst <= call.size /\ call.size <= call.announcedBytes
        /\ call.size = Min(call.announcedBytes,
                           dataLenFirst + dataLenConsecutive * (call.frameCounter - 1))
        /\ call.event = "cfAccepted" =>
              /\ call.appended = Min(dataLenConsecutive, call.announcedBytes - call.before)
              /\ call.size = call.before + call.appended

====
